---- MODULE Spec2Model ----
(***************************************************************************)
(* A model of the fund-distribution and transaction-execution engine of    *)
(* beaug: the split planner (split_operations.rs), the transaction queue   *)
(* (transaction_queue.rs), the transaction manager's nonce sequencing and  *)
(* retry loop (ledger_transaction_manager.rs) and the native signer's      *)
(* inner retry loop (native_ledger.rs).                                    *)
(*                                                                         *)
(* The module holds several specifications over one set of variables; a   *)
(* specification leaves the variables of the other components at their    *)
(* idle values:                                                            *)
(*   SpecPlan   prepare_split_transactions on bounded inputs               *)
(*   SpecNonce  get_next_nonce / initialize / refresh_nonce, concurrent    *)
(*   SpecQueue  execute_transaction / execute_all / skip_transaction on    *)
(*              one queue shared by concurrent callers                     *)
(*   SpecQueueOps, SpecQueueEdit  the queue with add_transactions, clear  *)
(*              and update_pending_transaction_value, one executor         *)
(*   SpecSign   one manager execute_transaction call: retry loop, error    *)
(*              classification, native signer loop, confirmation wait      *)
(*   SpecBatch  execute_transaction_batch and its progress callback        *)
(*   SpecDev    concurrent Signer operations under the global device lock  *)
(*   SpecScan   the four balance scans, with events and cancellation       *)
(*   SpecFind   recipient discovery of a plan preparation, with its events  *)
(*   SpecSettings  the custom-network list of the user settings             *)
(*   SpecRerand    a re-randomization job on a queue of Pending transfers   *)
(*   SpecPoll      a streaming scan task and the GUI frames that poll it    *)
(***************************************************************************)
EXTENDS Integers, Sequences, FiniteSets, TLC

VARIABLES
    \* ---- split planner (split_operations.rs) ----
    mode,                   \* SplitMode: "Random" | "Equal"
    source_balance,         \* source.balance, wei
    remaining_balance_wei,  \* remaining_balance.unwrap_or(0), wei
    gas_price,              \* provider.get_gas_price(), wei per gas
    gas_speed_bp,           \* (gas_speed * 100.0) as u64
    output_count,           \* number of recipients asked for
    draws,                  \* the rng's draws, one numerator per recipient
    plan_pc,                \* "off" | "ready" | "done"
    plan,                   \* what prepare_split_transactions ended with
    \* ---- nonce sequencing (ledger_transaction_manager.rs) ----
    chain_count,            \* what provider.get_transaction_count returns now
    current_nonce,          \* LedgerTransactionManager::current_nonce (Option<u64>)
    nonce_lock,             \* holder of the current_nonce mutex, 0 when free
    assigned,               \* every nonce get_next_nonce returned, in order
    ncall,                  \* per caller: where it is in its manager call
    \* ---- transaction queue (transaction_queue.rs) ----
    queue,                  \* TransactionQueue::transactions (Vec<QueuedTransaction>)
    manager_set,            \* TransactionQueue::manager.is_some(), per clone
    added,                  \* how many transactions add_transactions was given so far
    allocated,              \* the ids add_transactions has given out so far
    qcall,                  \* per caller of the queue: its call in progress
    \* ---- one execute_transaction call of the manager, and the signer ----
    use_native,             \* TransactionManagerConfig::use_native_ledger
    max_retries,            \* TransactionManagerConfig::max_retries
    wait_conf,              \* TransactionManagerConfig::wait_for_confirmation
    sign_pc,                \* where the call is
    attempt,                \* execute_transaction's attempt counter
    delay,                  \* execute_transaction's delay, ms
    sleeps,                 \* the sleeps execute_transaction made, ms, in order
    native_attempt,         \* the native signer's loop variable
    send_err,               \* the error send_transaction_internal returned
    raw_err,                \* the device's or cast's text behind send_err
    tx_hash,                \* the hash the broadcast returned, 0 before
    polls,                  \* wait_for_confirmation's attempts
    tx_result,              \* what execute_transaction returned
    denied,                 \* a signing attempt failed with a denial text
    resigned,               \* a signing attempt was made after that
    broadcasts,             \* the broadcast calls (send_raw_transaction, cast send) issued
    \* ---- batch helper (ledger_transaction_manager.rs) ----
    batch_pc,               \* "off" | "run" | "done"
    has_callback,           \* progress_callback is Some
    batch_total,            \* transactions.len()
    batch_exec,             \* what execute_transaction returned, in input order
    batch_results,          \* results
    callbacks,              \* the calls of progress_callback, in order
    \* ---- global device lock (ledger_lock.rs) ----
    ledger_lock,            \* LEDGER_LOCK: 0 = free, else the task holding the guard
    dev,                    \* per task: the Signer operation it runs and where it is
    \* ---- balance scans (balance.rs) ----
    scan,                   \* the scan function's parameters, locals and result
    chan,                   \* the events sent on progress_sender, in order
    cancel,                 \* cancel_receiver: "none" | "sent" | "taken"
    \* ---- recipient discovery (split_operations.rs) ----
    find,                   \* find_empty_receivers' parameters and locals, and the outcome
    progress,               \* the PrepareProgress events sent on progress_sender, in order
    \* ---- custom networks (user_settings.rs) ----
    custom_networks,        \* UserSettings::custom_networks (Vec<CustomNetwork>)
    net_call,               \* the last custom-network call: its name, argument and return value
    \* ---- re-randomization job (gui/app.rs) ----
    rr,                     \* the rerandomize_transaction_amounts jobs: their locals and how they ended
    bulk_disperse_state,    \* BulkDisperseState: current_gas_price (Option<U256>), gas_price_job.is_some()
    \* ---- GUI polling of a streaming scan (gui/app.rs) ----
    ui                      \* the GUI side of a streaming scan: receiver, job handle, what the frames recorded

planVars == <<mode, source_balance, remaining_balance_wei, gas_price,
              gas_speed_bp, output_count, draws, plan_pc, plan>>
nonceVars == <<chain_count, current_nonce, nonce_lock, assigned, ncall>>
queueVars == <<queue, manager_set, added, allocated, qcall>>
signVars == <<use_native, max_retries, wait_conf, sign_pc, attempt, delay, sleeps,
              native_attempt, send_err, raw_err, tx_hash, polls, tx_result, denied,
              resigned, broadcasts>>
batchVars == <<batch_pc, has_callback, batch_total, batch_exec, batch_results, callbacks>>
devVars == <<ledger_lock, dev>>
scanVars == <<scan, chan, cancel>>
findVars == <<find, progress>>
settingsVars == <<custom_networks, net_call>>
rerandVars == <<rr, bulk_disperse_state>>
pollVars == <<ui>>
vars == <<planVars, nonceVars, queueVars, signVars, batchVars, devVars, scanVars, findVars, settingsVars, rerandVars, pollVars>>

\* what the actions of one component leave alone: the other components
planOthers == <<nonceVars, queueVars, signVars, batchVars, devVars, scanVars, findVars, settingsVars, rerandVars, pollVars>>
nonceOthers == <<planVars, queueVars, signVars, batchVars, devVars, scanVars, findVars, settingsVars, rerandVars, pollVars>>
queueOthers == <<planVars, nonceVars, signVars, batchVars, devVars, scanVars, findVars, settingsVars, rerandVars, pollVars>>
batchOthers == <<planVars, nonceVars, queueVars, signVars, devVars, scanVars, findVars, settingsVars, rerandVars, pollVars>>
devOthers == <<planVars, nonceVars, queueVars, signVars, batchVars, scanVars, findVars, settingsVars, rerandVars, pollVars>>
scanOthers == <<planVars, nonceVars, queueVars, signVars, batchVars, devVars, findVars, settingsVars, rerandVars, pollVars>>
pollOthers == <<planVars, nonceVars, queueVars, signVars, batchVars, devVars, scanVars, findVars, settingsVars, rerandVars>>
\* (the re-randomization job works on the queue)
rerandOthers == <<planVars, nonceVars, signVars, batchVars, devVars, scanVars, findVars, settingsVars, pollVars>>
settingsOthers == <<planVars, nonceVars, queueVars, signVars, batchVars, devVars, scanVars, findVars, rerandVars, pollVars>>
findOthers == <<planVars, nonceVars, queueVars, signVars, batchVars, devVars, scanVars, settingsVars, rerandVars, pollVars>>
\* (the manager call takes its nonces from chain_count, current_nonce, assigned)
signOthers == <<planVars, queueVars, batchVars, nonce_lock, ncall, devVars, scanVars, findVars, settingsVars, rerandVars, pollVars>>

(***************************************************************************)
(*                         SPLIT PLANNER                                   *)
(***************************************************************************)

\* let gas_limit = 21000u64;
GasLimit == 21000

\* let min_transfer_amount = base_tx_fee * U256::from(5u64);
MinTransferFactor == 5

\* Bounds of the planner's inputs.  Balances are multiples of BalanceStep
\* plus a small remainder, so that every threshold of the planner (which is
\* a multiple of GasLimit * gas_price) is hit exactly, from below and from
\* above.
MaxGasPrice == 1
MaxOutputs == 3
MaxBalanceSteps == 24
MaxBalanceRem == 1
MaxKeepSteps == 1
RatioDen == 3

BalanceStep == GasLimit

\* gas speed multipliers 0.0x, 0.5x, 1.0x, 1.5x, 6.0x as basis points / 100
SpeedBps == {0, 50, 100, 150, 600}

Balances == {u * BalanceStep + r : u \in 0..MaxBalanceSteps, r \in 0..MaxBalanceRem}
Keeps == {u * BalanceStep * MinTransferFactor + r : u \in 0..MaxKeepSteps, r \in {0, 1}}

\* rng.gen_range(0.0..1.0) is modelled as a rational k / RatioDen, 0 <= k < RatioDen
Ratios == 0..(RatioDen - 1)

RECURSIVE SumValues(_)
SumValues(txs) ==
    IF txs = <<>> THEN 0 ELSE Head(txs).value + SumValues(Tail(txs))

\* effective_gas_price = gas_price * gas_speed_bp / 100
effective_gas_price(gp, bp) == (gp * bp) \div 100

\* tx_fee = effective_gas_price * gas_limit
tx_fee(gp, bp) == effective_gas_price(gp, bp) * GasLimit

\* mutant: the dust floor is one base fee instead of five
min_transfer_amount_1x(gp) == gp * GasLimit

\* min_transfer_amount = gas_price * gas_limit * 5
min_transfer_amount(gp) == (gp * GasLimit) * MinTransferFactor

PlanOk(txs) == [kind |-> "ok", txs |-> txs, error |-> "none"]
PlanErr(e) == [kind |-> "err", txs |-> <<>>, error |-> e]
\* a U256 subtraction below zero or a division by zero aborts the task
PlanPanic(e) == [kind |-> "panic", txs |-> <<>>, error |-> e]

\* (range_u128 as f64 * ratio) as u128, ratio = k / RatioDen
add_amount(range, k) == (range * k) \div RatioDen

\* The loop of prepare_random_transactions from recipient i (1-based) on.
\* cb is current_balance, txs the transactions pushed so far.
RECURSIVE RandomLoop(_, _, _, _, _, _, _, _)
RandomLoop(i, n, cb, M, F, K, dr, txs) ==
    IF i > n THEN txs
    ELSE
    LET remaining_receivers == n - (i - 1)
        is_last == remaining_receivers = 1
        dynamic_gas_reserve == F * remaining_receivers
        must_keep == K + dynamic_gas_reserve
    IN  IF cb <= must_keep + M THEN txs        \* "Balance depleted": break
        ELSE
        LET available_to_send == cb - must_keep
        IN  IF is_last
            THEN IF cb > K + F + M
                 THEN LET amount == cb - K - F
                      IN RandomLoop(i + 1, n, cb - (amount + F), M, F, K, dr,
                                    Append(txs, [to |-> i, value |-> amount]))
                 ELSE txs                      \* "Not enough for final": break
            ELSE
            LET max_send == available_to_send \div remaining_receivers
            IN  IF max_send < M THEN txs       \* "Not enough remaining": break
                ELSE
                LET range == max_send - M
                    amount == M + add_amount(range, dr[i])
                IN RandomLoop(i + 1, n, cb - (amount + F), M, F, K, dr,
                              Append(txs, [to |-> i, value |-> amount]))

\* prepare_random_transactions(receivers[..n], source_balance, min_transfer_amount,
\*                             tx_fee, .., remaining_balance_wei): always Ok
prepare_random_transactions(n, S, M, F, K, dr) ==
    PlanOk(RandomLoop(1, n, S, M, F, K, dr, <<>>))

\* mutant: the fees are not taken out of the distributable balance
prepare_equal_transactions_nofee(n, S, M, F, K) ==
    IF S <= K + F * n THEN PlanErr("Balance too low to cover fees")
    ELSE IF n = 0 THEN PlanPanic("division by zero")
    ELSE LET amount_per_receiver == (S - K) \div n
         IN IF amount_per_receiver < M THEN PlanErr("equal share below minimum")
            ELSE PlanOk([i \in 1..n |-> [to |-> i, value |-> amount_per_receiver]])

\* mutant: the integer-division remainder is added to the first transfer
prepare_equal_transactions_rem(n, S, M, F, K) ==
    IF S <= K + F * n THEN PlanErr("Balance too low to cover fees")
    ELSE IF n = 0 THEN PlanPanic("division by zero")
    ELSE LET distributable_balance == S - K - F * n
             amount_per_receiver == distributable_balance \div n
         IN IF amount_per_receiver < M THEN PlanErr("equal share below minimum")
            ELSE PlanOk([i \in 1..n |->
                    [to |-> i,
                     value |-> IF i = 1
                               THEN amount_per_receiver + (distributable_balance % n)
                               ELSE amount_per_receiver]])

\* prepare_equal_transactions(receivers[..n], source_balance, min_transfer_amount,
\*                            tx_fee, .., remaining_balance_wei)
prepare_equal_transactions(n, S, M, F, K) ==
    LET total_estimated_fees == F * n
    IN  IF S <= K + total_estimated_fees THEN PlanErr("Balance too low to cover fees")
        ELSE IF n = 0 THEN PlanPanic("division by zero")
        ELSE LET distributable_balance == S - K - total_estimated_fees
                 amount_per_receiver == distributable_balance \div n
             IN IF amount_per_receiver < M THEN PlanErr("equal share below minimum")
                ELSE PlanOk([i \in 1..n |-> [to |-> i, value |-> amount_per_receiver]])

\* prepare_split_transactions from the source-balance check on; the recipients
\* are the first n of a list that holds at least n (line 374)
prepare_split_transactions(md, n, S, K, gp, bp, dr) ==
    LET F == tx_fee(gp, bp)
        M == min_transfer_amount(gp)
        total_gas_needed == F * n
    IN  IF S = 0 THEN PlanErr("Source address has zero balance")
        ELSE IF K >= S THEN PlanErr("Remaining balance >= available balance")
        ELSE IF S - K < total_gas_needed THEN PlanPanic("arithmetic operation overflow")
        ELSE LET available_to_distribute == S - K - total_gas_needed
             IN IF available_to_distribute < M * n
                THEN PlanErr("Balance too low to split meaningfully")
                ELSE LET r == IF md = "Random"
                              THEN prepare_random_transactions(n, S, M, F, K, dr)
                              ELSE prepare_equal_transactions(n, S, M, F, K)
                     IN IF r.kind # "ok" THEN r
                        ELSE IF r.txs = <<>> THEN PlanErr("No valid transactions to execute")
                        ELSE r

NoDraws == [i \in 1..MaxOutputs |-> 0]
NoPlan == [kind |-> "none", txs |-> <<>>, error |-> "none"]

PlanOff ==
    /\ mode = "Equal" /\ source_balance = 0 /\ remaining_balance_wei = 0
    /\ gas_price = 0 /\ gas_speed_bp = 0 /\ output_count = 0
    /\ draws = NoDraws /\ plan_pc = "off" /\ plan = NoPlan

PlanInit ==
    /\ mode \in {"Random", "Equal"}
    /\ source_balance \in Balances
    /\ remaining_balance_wei \in Keeps
    /\ gas_price \in 0..MaxGasPrice
    /\ gas_speed_bp \in SpeedBps
    /\ output_count \in 0..MaxOutputs
    /\ draws \in [1..MaxOutputs -> Ratios]
    \* a draw is consumed only by a Random-mode recipient that is not the last
    /\ \A i \in 1..MaxOutputs : (mode = "Equal" \/ i >= output_count) => draws[i] = 0
    /\ plan_pc = "ready"
    /\ plan = NoPlan

PrepareSplit ==
    /\ plan_pc = "ready"
    /\ plan' = prepare_split_transactions(mode, output_count, source_balance,
                   remaining_balance_wei, gas_price, gas_speed_bp, draws)
    /\ plan_pc' = "done"
    /\ UNCHANGED <<mode, source_balance, remaining_balance_wei, gas_price,
                   gas_speed_bp, output_count, draws>>
    /\ UNCHANGED planOthers

\* ---- the planner's claims ----

PlanReturned == plan_pc = "done" /\ plan.kind = "ok"
PlanFee == tx_fee(gas_price, gas_speed_bp)

\* C1: for every plan prepare_split_transactions returns, the sum of the planned
\* amounts plus remainingBalanceToKeep plus txFee times the number of planned
\* transfers does not exceed the source balance.
C1_NoOverspend ==
    PlanReturned =>
        SumValues(plan.txs) + remaining_balance_wei + PlanFee * Len(plan.txs)
            <= source_balance

\* a Random plan of three transfers with a positive fee and a positive reserve
C1_Witness ==
    /\ PlanReturned /\ mode = "Random" /\ Len(plan.txs) = 3
    /\ PlanFee > 0 /\ remaining_balance_wei > 0 /\ draws[1] > 0

\* C8: every amount of a returned plan, in Equal and in Random mode, is at least
\* minTransferAmount = 5 x gasPrice x gasLimit.
C8_MinTransfer ==
    PlanReturned =>
        \A i \in 1..Len(plan.txs) :
            plan.txs[i].value >= MinTransferFactor * gas_price * GasLimit

\* a Random plan whose first amount is exactly the (positive) minimum
C8_Witness ==
    /\ PlanReturned /\ mode = "Random" /\ Len(plan.txs) >= 2 /\ gas_price > 0
    /\ plan.txs[1].value = MinTransferFactor * gas_price * GasLimit

\* C9 (as claimed): in every plan Random mode returns, the last planned amount is
\* the running balance before it minus remainingBalanceToKeep minus txFee, so that
\* the source is left with exactly remainingBalanceToKeep.
C9_LastLandsOnReserve ==
    (PlanReturned /\ mode = "Random") =>
        LET n == Len(plan.txs)
            before == source_balance
                        - (SumValues(SubSeq(plan.txs, 1, n - 1)) + PlanFee * (n - 1))
        IN  /\ plan.txs[n].value = before - remaining_balance_wei - PlanFee
            /\ source_balance - (SumValues(plan.txs) + PlanFee * n)
                   = remaining_balance_wei

\* C10: in Equal mode every planned amount is
\* floor((sourceBalance - remainingBalanceToKeep - txFee x count) / count), the
\* plan has exactly count transfers, and the remainder is added to no amount.
C10_EqualShare ==
    (PlanReturned /\ mode = "Equal") =>
        /\ Len(plan.txs) = output_count
        /\ \A i \in 1..Len(plan.txs) :
               plan.txs[i].value =
                   (source_balance - remaining_balance_wei - PlanFee * output_count)
                       \div output_count

\* an Equal plan of three transfers whose division leaves a remainder
C10_Witness ==
    /\ PlanReturned /\ mode = "Equal" /\ output_count = 3 /\ PlanFee > 0
    /\ (source_balance - remaining_balance_wei - PlanFee * 3) % 3 # 0

\* C11 (as claimed): whenever remainingBalanceToKeep >= sourceBalance, or
\* sourceBalance - remainingBalanceToKeep - txFee x outputCount (the
\* mathematical difference) is below minTransferAmount x outputCount,
\* prepare_split_transactions ends with an ordinary error and no plan.
C11_LowBalanceIsError ==
    (/\ plan_pc = "done"
     /\ \/ remaining_balance_wei >= source_balance
        \/ source_balance - remaining_balance_wei - PlanFee * output_count
               < min_transfer_amount(gas_price) * output_count)
        => (plan.kind = "err" /\ plan.txs = <<>>)

\* C38 (as claimed): whenever remainingBalanceToKeep < sourceBalance and
\* sourceBalance - remainingBalanceToKeep - txFee x outputCount >=
\* minTransferAmount x outputCount, Random mode returns a plan with exactly
\* outputCount transfers for every outcome of the draws (one recipient at least).
C38_RandomFullCount ==
    (/\ plan_pc = "done" /\ mode = "Random" /\ output_count >= 1
     /\ remaining_balance_wei < source_balance
     /\ source_balance - remaining_balance_wei - PlanFee * output_count
            >= min_transfer_amount(gas_price) * output_count)
        => (plan.kind = "ok" /\ Len(plan.txs) = output_count)

(***************************************************************************)
(*                 NONCE SEQUENCING (transaction manager)                  *)
(***************************************************************************)

\* Bounds: the on-chain counts the provider may report, the number of
\* assignments followed, the number of concurrent callers of the manager.
MaxChainCount == 1
MaxAssign == 3
NumCallers == 2

Callers == 1..NumCallers

\* Option<u64>
None == [some |-> FALSE, v |-> 0]
Some(n) == [some |-> TRUE, v |-> n]

\* std::cmp::max
Max(a, b) == IF a >= b THEN a ELSE b

CallerIdle == [pc |-> "idle", fetched |-> 0]

\* LedgerTransactionManager::new: current_nonce = None
NonceInit ==
    /\ chain_count \in 0..MaxChainCount
    /\ current_nonce = None
    /\ nonce_lock = 0
    /\ assigned = <<>>
    /\ ncall = [c \in Callers |-> CallerIdle]

NonceOff ==
    /\ chain_count = 0 /\ current_nonce = None /\ nonce_lock = 0
    /\ assigned = <<>> /\ ncall = [c \in Callers |-> CallerIdle]

\* the mutation of next_nonce that trusts the provider's count alone
next_nonce_chain_only(cur, refreshed_nonce) == refreshed_nonce

\* get_next_nonce's choice: max(nonce, refreshed_nonce), or the fetched count
\* when nothing is tracked yet
next_nonce(cur, refreshed_nonce) ==
    IF cur.some THEN Max(cur.v, refreshed_nonce) ELSE refreshed_nonce

\* get_next_nonce, first half: self.current_nonce.lock().await
GetNextNonceLock(c) ==
    /\ ncall[c].pc = "idle"
    /\ nonce_lock = 0
    /\ Len(assigned) < MaxAssign
    /\ nonce_lock' = c
    /\ ncall' = [ncall EXCEPT ![c].pc = "get_locked"]
    /\ UNCHANGED <<chain_count, current_nonce, assigned>>
    /\ UNCHANGED nonceOthers

\* get_next_nonce, second half, the guard still held: fetch_current_nonce
\* succeeds, the nonce is chosen and current_nonce = Some(next + 1)
GetNextNonceAssign(c) ==
    /\ ncall[c].pc = "get_locked"
    /\ nonce_lock = c
    /\ LET n == next_nonce(current_nonce, chain_count)
       IN  /\ current_nonce' = Some(n + 1)
           /\ assigned' = Append(assigned, n)
    /\ nonce_lock' = 0
    /\ ncall' = [ncall EXCEPT ![c].pc = "idle"]
    /\ UNCHANGED chain_count
    /\ UNCHANGED nonceOthers

\* get_next_nonce, second half when fetch_current_nonce fails: the ? returns
\* the error, the guard is dropped, nothing is assigned
GetNextNonceFail(c) ==
    /\ ncall[c].pc = "get_locked"
    /\ nonce_lock = c
    /\ nonce_lock' = 0
    /\ ncall' = [ncall EXCEPT ![c].pc = "idle"]
    /\ UNCHANGED <<chain_count, current_nonce, assigned>>
    /\ UNCHANGED nonceOthers

\* initialize, first half: fetch_current_nonce (the mutex is not held).  A
\* failed fetch returns the error and changes nothing.
InitializeFetch(c) ==
    /\ ncall[c].pc = "idle"
    /\ ncall' = [ncall EXCEPT ![c] = [pc |-> "init_fetched", fetched |-> chain_count]]
    /\ UNCHANGED <<chain_count, current_nonce, nonce_lock, assigned>>
    /\ UNCHANGED nonceOthers

\* initialize, second half: *self.current_nonce.lock().await = Some(nonce)
InitializeStore(c) ==
    /\ ncall[c].pc = "init_fetched"
    /\ nonce_lock = 0
    /\ current_nonce' = Some(ncall[c].fetched)
    /\ ncall' = [ncall EXCEPT ![c] = CallerIdle]
    /\ UNCHANGED <<chain_count, nonce_lock, assigned>>
    /\ UNCHANGED nonceOthers

\* refresh_nonce, first half: fetch_current_nonce (the mutex is not held)
RefreshFetch(c) ==
    /\ ncall[c].pc = "idle"
    /\ ncall' = [ncall EXCEPT ![c] = [pc |-> "refresh_fetched", fetched |-> chain_count]]
    /\ UNCHANGED <<chain_count, current_nonce, nonce_lock, assigned>>
    /\ UNCHANGED nonceOthers

\* refresh_nonce, second half: *self.current_nonce.lock().await = Some(nonce)
RefreshStore(c) ==
    /\ ncall[c].pc = "refresh_fetched"
    /\ nonce_lock = 0
    /\ current_nonce' = Some(ncall[c].fetched)
    /\ ncall' = [ncall EXCEPT ![c] = CallerIdle]
    /\ UNCHANGED <<chain_count, nonce_lock, assigned>>
    /\ UNCHANGED nonceOthers

\* the provider's answer changes: transactions of the source address are mined
\* (or submitted from elsewhere), or another node of the provider answers
ChainChange ==
    /\ \E n \in 0..MaxChainCount : n # chain_count /\ chain_count' = n
    /\ UNCHANGED <<current_nonce, nonce_lock, assigned, ncall>>
    /\ UNCHANGED nonceOthers

NonceNext ==
    \/ \E c \in Callers : GetNextNonceLock(c)
    \/ \E c \in Callers : GetNextNonceAssign(c)
    \/ \E c \in Callers : GetNextNonceFail(c)
    \/ \E c \in Callers : InitializeFetch(c)
    \/ \E c \in Callers : InitializeStore(c)
    \/ \E c \in Callers : RefreshFetch(c)
    \/ \E c \in Callers : RefreshStore(c)
    \/ ChainChange

\* ---- the nonce claims ----

\* C2 (as claimed): every nonce the manager assigns is strictly greater than every
\* nonce it assigned earlier, whatever counts the provider returns, under
\* concurrent callers, and also after initialize or refresh_nonce ran between two
\* assignments.
C2_StrictlyIncreasing ==
    \A i, j \in 1..Len(assigned) : i < j => assigned[i] < assigned[j]

(***************************************************************************)
(*                        TRANSACTION QUEUE                                *)
(***************************************************************************)

\* Bound: the transactions in the queue (ids 0 .. QueueLen - 1).
QueueLen == 2

\* Bounds: the amounts update_pending_transaction_value may set, and the
\* number of transactions handed to add_transactions over a run.
MaxValue == 2
MaxAdded == 2
Values == 1..MaxValue

\* the two tasks that call the queue through its clones (the GUI's worker
\* thread and one more holder of a clone)
QCallers == 1..2
\* the ids a caller may pass: those of the queue and one that is not in it
CallIds == 0..QueueLen

\* `manager: None` of new and with_delay, in every clone (derive(Clone) copies
\* the Option; each caller holds its own clone)
NoManager == [p \in QCallers |-> FALSE]

\* TransactionStatus
\* (of Success's tx_hash, block_number and gas_used, `confirmed` says whether
\* the receipt's block number and gas are there)
Pending == [tag |-> "Pending", retryable |-> FALSE, error |-> "none", confirmed |-> FALSE]
InProgress == [tag |-> "InProgress", retryable |-> FALSE, error |-> "none", confirmed |-> FALSE]
Success(c) == [tag |-> "Success", retryable |-> FALSE, error |-> "none", confirmed |-> c]
Failed(e, r) == [tag |-> "Failed", retryable |-> r, error |-> e, confirmed |-> FALSE]
Skipped == [tag |-> "Skipped", retryable |-> FALSE, error |-> "none", confirmed |-> FALSE]

\* what LedgerTransactionManager::execute_transaction can come back with:
\* Ok(Success), Ok(Failed{error, retryable}) for a non-retryable and for a
\* retryable error, and Err (get_next_nonce's ? on a failed count fetch)
MgrNone == [kind |-> "none", error |-> "none", retryable |-> FALSE, confirmed |-> FALSE]
MgrSuccess(c) == [kind |-> "success", error |-> "none", retryable |-> FALSE, confirmed |-> c]
MgrFailed(e, r) == [kind |-> "failed", error |-> e, retryable |-> r, confirmed |-> FALSE]
MgrErr(e) == [kind |-> "err", error |-> e, retryable |-> FALSE, confirmed |-> FALSE]
ManagerResults ==
    {MgrSuccess(TRUE), MgrSuccess(FALSE),
     MgrFailed("rejected", FALSE), MgrFailed("timeout", TRUE),
     MgrErr("nonce fetch failed")}

\* anyhow!("Transaction failed: {}", error).to_string()
TransactionFailed(e) ==
    IF e = "rejected" THEN "Transaction failed: rejected"
    ELSE IF e = "timeout" THEN "Transaction failed: timeout"
    ELSE "Transaction failed"

RetNone == [kind |-> "none", error |-> "none"]
RetOk == [kind |-> "ok", error |-> "none"]
RetErr(e) == [kind |-> "err", error |-> e]

\* tx_to_execute, the PendingTransaction execute_transaction clones
NoTx == [to |-> 0, value |-> 0]

QIdle == [op |-> "none", pc |-> "idle", id |-> 0, ids |-> <<>>, pos |-> 0,
          from |-> "none", res |-> MgrNone, err |-> "none", ret |-> RetNone,
          results |-> <<>>, skipseen |-> {}, tx |-> NoTx, snap |-> {}]

\* queue.iter().find(|tx| tx.id == id): the index of the first match, 0 if none
FindTx(q, id) ==
    IF \E i \in 1..Len(q) : q[i].id = id
    THEN CHOOSE i \in 1..Len(q) :
            q[i].id = id /\ \A j \in 1..Len(q) : q[j].id = id => i <= j
    ELSE 0

\* get_transaction_status(id) of a queued id
StatusOf(q, id) == q[FindTx(q, id)].status

\* tx.transaction.clone() of a queued id
TxOf(q, id) == [to |-> q[FindTx(q, id)].to, value |-> q[FindTx(q, id)].value]

\* the recipients of the transactions that are Pending in q
PendingTos(q) == {q[i].to : i \in {j \in 1..Len(q) : q[j].status.tag = "Pending"}}

\* update_status: an unconditional write, nothing when the id is not found
update_status(q, id, st) ==
    IF FindTx(q, id) = 0 THEN q ELSE [q EXCEPT ![FindTx(q, id)].status = st]

RECURSIVE PendingIds(_)
\* queue.iter().filter(|tx| matches!(tx.status, Pending)).map(|tx| tx.id).collect()
PendingIds(q) ==
    IF q = <<>> THEN <<>>
    ELSE IF Head(q).status.tag = "Pending"
         THEN <<Head(q).id>> \o PendingIds(Tail(q))
         ELSE PendingIds(Tail(q))

\* the mutation of Executable that lets every Failed transaction through
Executable_any_failed(st) == st.tag = "Pending" \/ st.tag = "Failed"

\* the statuses execute_transaction accepts
Executable(st) == st.tag = "Pending" \/ (st.tag = "Failed" /\ st.retryable)

\* QueuedTransaction as add_transactions pushes it.  Of the PendingTransaction
\* it carries, `to` and `value` are kept; the transactions handed to
\* add_transactions go to recipients 1, 2, 3, ... in the order given.
NewTx(id, to, value) == [id |-> id, status |-> Pending, to |-> to, value |-> value]

\* add_transactions of QueueLen transactions on a new queue: ids
\* 0 .. QueueLen - 1, all Pending
QueueInit ==
    /\ queue = [i \in 1..QueueLen |-> NewTx(i - 1, i, 1)]
    /\ manager_set = NoManager
    /\ added = QueueLen /\ allocated = 0..(QueueLen - 1)
    /\ qcall = [p \in QCallers |-> QIdle]

QueueOff ==
    /\ queue = <<>> /\ manager_set = NoManager /\ added = 0 /\ allocated = {}
    /\ qcall = [p \in QCallers |-> QIdle]

\* TransactionQueue::new with one task executing:
\* the queue is empty and the second task makes no call
QAbsent == [QIdle EXCEPT !.pc = "absent"]
QueueOpsInit ==
    /\ queue = <<>>
    /\ manager_set = NoManager
    /\ added = 0 /\ allocated = {}
    /\ qcall = [p \in QCallers |-> IF p = 1 THEN QIdle ELSE QAbsent]

\* execute_transaction returns to its caller with Ok (err = "none") or Err:
\* a direct call (execute_one) has returned; inside execute_all the loop
\* body goes on with the match on the result
ExecReturn(c, err) ==
    IF c.op = "one"
    THEN [c EXCEPT !.pc = "returned",
                   !.ret = IF err = "none" THEN RetOk ELSE RetErr(err)]
    ELSE [c EXCEPT !.pc = "exec_ret", !.err = err]

\* The first block of execute_transaction(id), under the queue lock (lines
\* 160-177), entered by caller p, whose call state is c, for `id`.
ExecCheck(p, id, c) ==
    IF FindTx(queue, id) = 0
    THEN /\ qcall' = [qcall EXCEPT ![p] = ExecReturn(c, "Transaction not found")]
         /\ UNCHANGED queue
    ELSE IF Executable(StatusOf(queue, id))
    THEN /\ queue' = update_status(queue, id, InProgress)
         /\ qcall' = [qcall EXCEPT ![p] =
                IF manager_set[p]
                THEN [c EXCEPT !.pc = "mgr", !.from = StatusOf(queue, id).tag,
                               !.tx = TxOf(queue, id)]
                ELSE ExecReturn([c EXCEPT !.from = StatusOf(queue, id).tag,
                                          !.tx = TxOf(queue, id)],
                                "Transaction manager not set")]
    ELSE /\ qcall' = [qcall EXCEPT ![p] =
                ExecReturn(c, "Transaction cannot be executed in current state")]
         /\ UNCHANGED queue

\* set_manager(&mut self, manager) on caller p's clone, between its calls:
\* self.manager = Some(manager)
SetManager(p) ==
    /\ qcall[p].pc = "idle"
    /\ manager_set' = [manager_set EXCEPT ![p] = TRUE]
    /\ UNCHANGED <<queue, added, allocated, qcall>>
    /\ UNCHANGED queueOthers

\* caller p, between its calls, replaces its handle by a clone of caller r's:
\* derive(Clone) shares the transactions and copies the manager Option
CloneQueue(p, r) ==
    /\ p # r
    /\ qcall[p].pc = "idle"
    /\ manager_set' = [manager_set EXCEPT ![p] = manager_set[r]]
    /\ UNCHANGED <<queue, added, allocated, qcall>>
    /\ UNCHANGED queueOthers

\* execute_transaction(id) called directly (execute_one)
ExecuteOneBegin(p, id) ==
    /\ qcall[p].pc = "idle"
    /\ ExecCheck(p, id, [QIdle EXCEPT !.op = "one", !.id = id])
    /\ UNCHANGED <<manager_set, added, allocated>>
    /\ UNCHANGED queueOthers

\* execute_all up to its loop: the manager check and the snapshot of the
\* Pending ids.  Without a manager it returns Err at once.
ExecuteAllBegin(p) ==
    /\ qcall[p].pc = "idle"
    /\ qcall' = [qcall EXCEPT ![p] =
          IF ~manager_set[p]
          THEN [QIdle EXCEPT !.op = "all", !.pc = "returned",
                             !.ret = RetErr("Transaction manager not set")]
          ELSE IF PendingIds(queue) = <<>>
          THEN [QIdle EXCEPT !.op = "all", !.pc = "returned", !.ret = RetOk]
          ELSE [QIdle EXCEPT !.op = "all", !.pc = "turn", !.ids = PendingIds(queue),
                             !.pos = 1, !.id = PendingIds(queue)[1],
                             !.snap = PendingTos(queue)]]
    /\ UNCHANGED <<queue, manager_set, added, allocated>>
    /\ UNCHANGED queueOthers

\* execute_all's loop body, first step: self.execute_transaction(id) for the
\* snapshot id whose turn it is
ExecuteAllTurn(p) ==
    /\ qcall[p].pc = "turn"
    /\ ExecCheck(p, qcall[p].id, qcall[p])
    /\ UNCHANGED <<manager_set, added, allocated>>
    /\ UNCHANGED queueOthers

\* manager.execute_transaction(&tx).await comes back inside
\* execute_transaction, and the match on its result runs (lines 179-195):
\* Err leaves through `?` with the status untouched; Success is written with
\* update_status and Ok returned; Failed is written and Err returned.
ManagerExecute(p) ==
    /\ qcall[p].pc = "mgr"
    /\ \E r \in ManagerResults :
          LET c == [qcall[p] EXCEPT !.res = r]
          IN IF r.kind = "err"
             THEN /\ qcall' = [qcall EXCEPT ![p] = ExecReturn(c, r.error)]
                  /\ UNCHANGED queue
             ELSE IF r.kind = "success"
             THEN /\ queue' = update_status(queue, c.id, Success(r.confirmed))
                  /\ qcall' = [qcall EXCEPT ![p] = ExecReturn(c, "none")]
             ELSE /\ queue' = update_status(queue, c.id, Failed(r.error, r.retryable))
                  /\ qcall' = [qcall EXCEPT ![p] =
                         ExecReturn(c, TransactionFailed(r.error))]
    /\ UNCHANGED <<manager_set, added, allocated>>
    /\ UNCHANGED queueOthers

\* the mutation of AllAdvance that gives the batch up on a failure
AllAdvance_abort(c, entry) ==
    IF entry.status.tag # "Failed" /\ c.pos < Len(c.ids)
    THEN [c EXCEPT !.pc = "turn", !.pos = c.pos + 1, !.id = c.ids[c.pos + 1],
                   !.from = "none", !.err = "none", !.res = MgrNone, !.tx = NoTx,
                   !.results = Append(c.results, entry)]
    ELSE [c EXCEPT !.pc = "returned",
                   !.ret = IF entry.status.tag = "Failed"
                           THEN RetErr(entry.status.error) ELSE RetOk,
                   !.from = "none", !.err = "none", !.res = MgrNone, !.tx = NoTx,
                   !.results = Append(c.results, entry)]

\* where execute_all goes after recording one id: the next snapshot id (after
\* the inter-transaction sleep) or Ok(results)
AllAdvance(c, entry) ==
    IF c.pos < Len(c.ids)
    THEN [c EXCEPT !.pc = "turn", !.pos = c.pos + 1, !.id = c.ids[c.pos + 1],
                   !.from = "none", !.err = "none", !.res = MgrNone, !.tx = NoTx,
                   !.results = Append(c.results, entry)]
    ELSE [c EXCEPT !.pc = "returned", !.ret = RetOk,
                   !.from = "none", !.err = "none", !.res = MgrNone, !.tx = NoTx,
                   !.results = Append(c.results, entry)]

\* execute_all, Ok arm (lines 218-228): read the status back and push it
ExecuteAllOk(p) ==
    /\ qcall[p].pc = "exec_ret" /\ qcall[p].op = "all" /\ qcall[p].err = "none"
    /\ LET c == qcall[p]
           status == IF FindTx(queue, c.id) = 0 THEN Success(FALSE) ELSE StatusOf(queue, c.id)
       IN qcall' = [qcall EXCEPT ![p] = AllAdvance(c, [id |-> c.id, status |-> status])]
    /\ UNCHANGED <<queue, manager_set, added, allocated>>
    /\ UNCHANGED queueOthers

\* execute_all, Err arm (lines 229-236): whatever made execute_transaction
\* return Err, write Failed{e.to_string(), retryable: false} and push it
ExecuteAllErr(p) ==
    /\ qcall[p].pc = "exec_ret" /\ qcall[p].op = "all" /\ qcall[p].err # "none"
    /\ LET c == qcall[p]
           status == Failed(c.err, FALSE)
       IN /\ queue' = update_status(queue, c.id, status)
          /\ qcall' = [qcall EXCEPT ![p] = AllAdvance(c, [id |-> c.id, status |-> status])]
    /\ UNCHANGED <<manager_set, added, allocated>>
    /\ UNCHANGED queueOthers

\* the caller takes the result of its call; it may call again
QueueCallDone(p) ==
    /\ qcall[p].pc = "returned"
    /\ qcall' = [qcall EXCEPT ![p] = QIdle]
    /\ UNCHANGED <<queue, manager_set, added, allocated>>
    /\ UNCHANGED queueOthers

\* whether execute_all call c has `id` in its snapshot with its turn still to come
TurnToCome(c, id) ==
    /\ c.op = "all"
    /\ \E k \in 1..Len(c.ids) :
          c.ids[k] = id /\ (k > c.pos \/ (k = c.pos /\ c.pc = "turn"))

\* skip_transaction(id): the queue it leaves and the Result it returns
skip_transaction(q, id) ==
    IF FindTx(q, id) = 0
    THEN [queue |-> q, ret |-> RetErr("Transaction not found")]
    ELSE IF StatusOf(q, id).tag = "Pending"
    THEN [queue |-> [q EXCEPT ![FindTx(q, id)].status = Skipped], ret |-> RetOk]
    ELSE [queue |-> q, ret |-> RetErr("Can only skip pending transactions")]

\* the mutation of update_pending_transaction_value that does not look at the status
update_pending_transaction_value_any(q, id, new_value) ==
    IF FindTx(q, id) = 0
    THEN [queue |-> q, ret |-> RetErr("Transaction not found")]
    ELSE [queue |-> [q EXCEPT ![FindTx(q, id)].value = new_value], ret |-> RetOk]

\* update_pending_transaction_value(id, new_value): the queue it leaves and
\* the Result it returns
update_pending_transaction_value(q, id, new_value) ==
    IF FindTx(q, id) = 0
    THEN [queue |-> q, ret |-> RetErr("Transaction not found")]
    ELSE IF StatusOf(q, id).tag = "Pending"
    THEN [queue |-> [q EXCEPT ![FindTx(q, id)].value = new_value], ret |-> RetOk]
    ELSE [queue |-> q,
          ret |-> RetErr("Can only update values for pending transactions")]

\* A call of skip_transaction(id), made on any clone of the queue.  Every
\* running execute_all that has still to reach the id notes a skip that
\* took effect.
SkipTransaction(id) ==
    /\ queue' = skip_transaction(queue, id).queue
    /\ qcall' = [p \in QCallers |->
          IF skip_transaction(queue, id).ret = RetOk /\ TurnToCome(qcall[p], id)
          THEN [qcall[p] EXCEPT !.skipseen = @ \cup {id}]
          ELSE qcall[p]]
    /\ UNCHANGED <<manager_set, added, allocated>>
    /\ UNCHANGED queueOthers

\* A call of update_pending_transaction_value(id, new_value)
UpdatePendingValue(id, new_value) ==
    /\ queue' = update_pending_transaction_value(queue, id, new_value).queue
    /\ UNCHANGED <<manager_set, added, allocated, qcall>>
    /\ UNCHANGED queueOthers

\* add_transactions with k transactions: ids from queue.len() on, all
\* Pending, appended in the order given
AddTransactions(k) ==
    /\ Len(queue) + k <= QueueLen
    /\ added + k <= MaxAdded
    /\ queue' = queue \o [i \in 1..k |-> NewTx(Len(queue) + i - 1, added + i, 1)]
    /\ added' = added + k
    /\ allocated' = allocated \cup {Len(queue) + i - 1 : i \in 1..k}
    /\ UNCHANGED <<manager_set, qcall>>
    /\ UNCHANGED queueOthers

\* clear
Clear ==
    /\ queue' = <<>>
    /\ UNCHANGED <<manager_set, added, allocated, qcall>>
    /\ UNCHANGED queueOthers

QueueNext ==
    \/ \E p \in QCallers : SetManager(p)
    \/ \E p, r \in QCallers : CloneQueue(p, r)
    \/ \E p \in QCallers, id \in CallIds : ExecuteOneBegin(p, id)
    \/ \E p \in QCallers : ExecuteAllBegin(p)
    \/ \E p \in QCallers : ExecuteAllTurn(p)
    \/ \E p \in QCallers : ManagerExecute(p)
    \/ \E p \in QCallers : ExecuteAllOk(p)
    \/ \E p \in QCallers : ExecuteAllErr(p)
    \/ \E p \in QCallers : QueueCallDone(p)
    \/ \E id \in CallIds : SkipTransaction(id)

\* one task executing, with add_transactions and clear
QueueOpsNext ==
    \/ QueueNext
    \/ \E k \in 1..QueueLen : AddTransactions(k)
    \/ Clear

\* the operations that edit the queue's entries, with execute_one
QueueEditNext ==
    \/ \E k \in 1..QueueLen : AddTransactions(k)
    \/ \E id \in CallIds, v \in Values : UpdatePendingValue(id, v)
    \/ \E id \in CallIds : SkipTransaction(id)
    \/ \E p \in QCallers : SetManager(p)
    \/ \E p, r \in QCallers : CloneQueue(p, r)
    \/ \E p \in QCallers, id \in CallIds : ExecuteOneBegin(p, id)
    \/ \E p \in QCallers : ManagerExecute(p)
    \/ \E p \in QCallers : QueueCallDone(p)

\* ---- the queue claims ----

\* the edges of the status lifecycle
AllowedEdge(a, b) ==
    \/ a.tag = "Pending" /\ b.tag = "InProgress"
    \/ a.tag = "InProgress" /\ b.tag = "Success"
    \/ a.tag = "InProgress" /\ b.tag = "Failed"
    \/ a.tag = "Pending" /\ b.tag = "Skipped"
    \/ a.tag = "Failed" /\ a.retryable /\ b.tag = "InProgress"

\* C3 (as claimed): under any interleaving of execute_one, execute_all and skip,
\* every status change follows Pending -> InProgress, InProgress -> Success,
\* InProgress -> Failed, Pending -> Skipped or Failed{retryable} -> InProgress;
\* Success, Skipped and Failed{retryable:false} never change again.
\* (A rewrite of the error text alone is not counted as a status change.)
C3_LifecycleEdges ==
    [][\A i \in 1..Len(queue) :
          (\/ queue'[i].status.tag # queue[i].status.tag
           \/ queue'[i].status.retryable # queue[i].status.retryable)
              => AllowedEdge(queue[i].status, queue'[i].status)]_vars

ExecuteAllRunning == \E p \in QCallers : qcall[p].op = "all" /\ qcall[p].pc # "returned"
InProgressCount == Cardinality({i \in 1..Len(queue) : queue[i].status.tag = "InProgress"})

\* C4 (as claimed): while an execute_all call is running, at most one transaction
\* of the queue is InProgress, whatever other calls interleave.
C4_OneInProgress == ExecuteAllRunning => InProgressCount <= 1

\* C5 (as claimed): a snapshot transaction skipped by a concurrent skip before
\* execute_all reaches it is Skipped when execute_all returns.
C5_SkippedStaysSkipped ==
    \A p \in QCallers :
        (qcall[p].op = "all" /\ qcall[p].pc = "returned") =>
            \A id \in qcall[p].skipseen : StatusOf(queue, id).tag = "Skipped"

\* C6 (as claimed): a snapshot transaction that is no longer Pending when its
\* turn comes is not handed to the transaction manager by execute_all.
C6_OnlyPendingHandedOver ==
    \A p \in QCallers :
        (qcall[p].op = "all" /\ qcall[p].pc = "mgr") => qcall[p].from = "Pending"

\* whether the transaction `id` addresses is in q and Pending
IsPending(q, id) == FindTx(q, id) # 0 /\ StatusOf(q, id).tag = "Pending"

\* what the two operations return and leave, set against the status of the
\* transaction addressed at the moment of the call
OpsRespectPending(id, v) ==
    LET u == update_pending_transaction_value(queue, id, v)
        k == skip_transaction(queue, id)
        i == FindTx(queue, id)
    IN  IF IsPending(queue, id)
        THEN /\ u.ret = RetOk /\ u.queue = [queue EXCEPT ![i].value = v]
             /\ k.ret = RetOk /\ k.queue = [queue EXCEPT ![i].status = Skipped]
        ELSE /\ u.ret.kind = "err" /\ u.queue = queue
             /\ k.ret.kind = "err" /\ k.queue = queue

\* C12: update_pending_value(id, v) and skip(id) return an error and change
\* nothing unless the addressed transaction is Pending at the moment of the
\* call; on a Pending transaction the one changes only that transaction's
\* amount, the other only its status, to Skipped.  Stated for every call
\* that could be made in a state, and for every step taken: an amount changes
\* only on a Pending transaction and with nothing else, a transaction becomes
\* Skipped only from Pending and with nothing else.
C12_OnlyPendingMutable ==
    [][/\ \A id \in CallIds, v \in Values : OpsRespectPending(id, v)
       /\ \A i \in 1..(IF Len(queue) <= Len(queue') THEN Len(queue) ELSE Len(queue')) :
             /\ queue'[i].value # queue[i].value =>
                    /\ queue[i].status = Pending
                    /\ queue' = [queue EXCEPT ![i].value = queue'[i].value]
             /\ (queue'[i].status = Skipped /\ queue[i].status # Skipped) =>
                    /\ queue[i].status = Pending
                    /\ queue' = [queue EXCEPT ![i].status = Skipped]]_vars

\* an updated amount on a transaction since executed, next to a skipped one
C12_Witness ==
    \E i, j \in 1..Len(queue) :
        /\ queue[i].value = MaxValue /\ queue[i].status.tag = "Success"
        /\ queue[j].status = Skipped

\* C13: execute_one(id) returns an error and changes no status when the id
\* is unknown or the status is neither Pending nor Failed{retryable:true};
\* otherwise it sets InProgress before the manager is called, and when the
\* manager has returned a result it sets Success with the manager's data or
\* Failed with the manager's error and retryable flag.
C13_ExecuteOne ==
    [][\A p \in QCallers :
          /\ (qcall[p].pc = "idle" /\ qcall'[p].op = "one") =>
                LET id == qcall'[p].id
                    i == FindTx(queue, id)
                    refused == IF i = 0 THEN TRUE
                               ELSE ~(\/ queue[i].status.tag = "Pending"
                                      \/ /\ queue[i].status.tag = "Failed"
                                         /\ queue[i].status.retryable)
                IN  IF refused
                    THEN /\ qcall'[p].pc = "returned"
                         /\ qcall'[p].ret.kind = "err"
                         /\ queue' = queue
                    ELSE /\ queue' = [queue EXCEPT ![i].status = InProgress]
                         /\ \/ qcall'[p].pc = "mgr"
                            \/ /\ ~manager_set[p]
                               /\ qcall'[p].pc = "returned"
                               /\ qcall'[p].ret.kind = "err"
          /\ (qcall[p].op = "one" /\ qcall[p].pc = "mgr" /\ qcall'[p].pc = "returned") =>
                LET i == FindTx(queue, qcall[p].id)
                    r == qcall'[p].res
                    set(st) == IF i = 0 THEN queue' = queue
                               ELSE queue' = [queue EXCEPT ![i].status = st]
                IN  /\ r.kind = "success" =>
                          /\ qcall'[p].ret = RetOk
                          /\ set([tag |-> "Success", retryable |-> FALSE,
                                  error |-> "none", confirmed |-> r.confirmed])
                    /\ r.kind = "failed" =>
                          /\ qcall'[p].ret.kind = "err"
                          /\ set([tag |-> "Failed", retryable |-> r.retryable,
                                  error |-> r.error, confirmed |-> FALSE])
                    /\ r.kind = "err" =>
                          /\ qcall'[p].ret.kind = "err"
                          /\ queue' = queue]_vars

\* a manual retry of a Failed{retryable:true} transaction that succeeded, and
\* a transaction whose final failure refuses a further execute_one
C13_Witness ==
    \E p \in QCallers :
        /\ qcall[p].op = "one" /\ qcall[p].pc = "returned"
        /\ qcall[p].from = "Failed" /\ qcall[p].res.kind = "success"
        /\ \E j \in 1..Len(queue) :
               queue[j].status.tag = "Failed" /\ ~queue[j].status.retryable

\* C14 (as claimed): execute_all executes the transactions that were Pending
\* when it took its snapshot, in strictly ascending id order; a transaction
\* added to the queue after the snapshot is not executed by that call.
C14_SnapshotOnly ==
    \A p \in QCallers :
        qcall[p].op = "all" =>
            /\ \A k, l \in 1..Len(qcall[p].ids) :
                   k < l => qcall[p].ids[k] < qcall[p].ids[l]
            /\ qcall[p].pc = "mgr" => qcall[p].tx.to \in qcall[p].snap

\* C15: whatever fails for one transaction of the batch, execute_all goes on
\* to every later id of its snapshot and returns Ok with exactly one
\* (id, status) entry per snapshot id, in snapshot order.  While the call
\* runs, the entries pushed are those of the ids before the current one; it
\* returns Err only before the snapshot, when no manager is set.
C15_BatchCompletes ==
    \A p \in QCallers :
        qcall[p].op = "all" =>
            LET c == qcall[p]
            IN  /\ c.pc \in {"turn", "mgr", "exec_ret"} =>
                      /\ c.pos \in 1..Len(c.ids)
                      /\ c.id = c.ids[c.pos]
                      /\ Len(c.results) = c.pos - 1
                /\ \A k \in 1..Len(c.results) : c.results[k].id = c.ids[k]
                /\ c.pc = "returned" =>
                      IF manager_set[p]
                      THEN c.ret = RetOk /\ Len(c.results) = Len(c.ids)
                      ELSE c.ret.kind = "err" /\ c.ids = <<>>

\* a returned batch whose first transaction failed and whose second succeeded
C15_Witness ==
    \E p \in QCallers :
        /\ qcall[p].op = "all" /\ qcall[p].pc = "returned"
        /\ Len(qcall[p].results) >= 2
        /\ qcall[p].results[1].status.tag = "Failed"
        /\ qcall[p].results[2].status.tag = "Success"

\* C29 (as claimed): no two transactions in the queue share an id; each
\* add gives every new transaction an id strictly greater than every id the
\* queue allocated before, also after a clear, and appends the new
\* transactions in the order given, Pending, without changing the entries
\* already there.
C29_FreshIds ==
    /\ [](\A i, j \in 1..Len(queue) : i # j => queue[i].id # queue[j].id)
    /\ [][added' > added =>
            /\ SubSeq(queue', 1, Len(queue)) = queue
            /\ Len(queue') = Len(queue) + (added' - added)
            /\ \A i \in (Len(queue) + 1)..Len(queue') :
                  /\ queue'[i].to = added + (i - Len(queue))
                  /\ queue'[i].status = Pending
                  /\ \A a \in allocated : queue'[i].id > a]_vars

\* QueueStatistics::default()
NoStatistics ==
    [total |-> 0, pending |-> 0, in_progress |-> 0, success |-> 0,
     failed |-> 0, skipped |-> 0]

\* the body of get_statistics' loop for one transaction
CountOne(stats, tx) ==
    LET t == [stats EXCEPT !.total = stats.total + 1]
    IN  CASE tx.status.tag = "Pending" -> [t EXCEPT !.pending = t.pending + 1]
          [] tx.status.tag = "InProgress" -> [t EXCEPT !.in_progress = t.in_progress + 1]
          [] tx.status.tag = "Success" -> [t EXCEPT !.success = t.success + 1]
          [] tx.status.tag = "Failed" -> [t EXCEPT !.failed = t.failed + 1]
          [] tx.status.tag = "Skipped" -> [t EXCEPT !.skipped = t.skipped + 1]

\* the mutation of get_statistics that counts the first transaction only
get_statistics_first(q) == IF q = <<>> THEN NoStatistics ELSE CountOne(NoStatistics, q[1])

\* get_statistics: for tx in queue.iter() { ... }
RECURSIVE StatisticsUpTo(_, _)
StatisticsUpTo(q, n) == IF n = 0 THEN NoStatistics ELSE CountOne(StatisticsUpTo(q, n - 1), q[n])
get_statistics(q) == StatisticsUpTo(q, Len(q))

\* QueueStatistics::is_complete
is_complete(stats) == stats.pending = 0 /\ stats.in_progress = 0

\* the number of transactions of q whose status has tag t
WithTag(q, t) == Cardinality({i \in 1..Len(q) : q[i].status.tag = t})

\* C30: in every queue state, statistics' counts are the numbers of
\* transactions in each status, total is their sum and the number of queued
\* transactions, and is_complete is true iff none is Pending or InProgress.
C30_StatisticsCount ==
    LET stats == get_statistics(queue)
    IN  /\ stats.total = Len(queue)
        /\ stats.total = stats.pending + stats.in_progress + stats.success
                            + stats.failed + stats.skipped
        /\ stats.pending = WithTag(queue, "Pending")
        /\ stats.in_progress = WithTag(queue, "InProgress")
        /\ stats.success = WithTag(queue, "Success")
        /\ stats.failed = WithTag(queue, "Failed")
        /\ stats.skipped = WithTag(queue, "Skipped")
        /\ is_complete(stats) =
               (\A i \in 1..Len(queue) :
                    queue[i].status.tag \notin {"Pending", "InProgress"})

\* a queue with one transaction in progress after one was skipped
C30_Witness ==
    /\ Len(queue) = 2
    /\ queue[1].status.tag = "Skipped" /\ queue[2].status.tag = "InProgress"
    /\ get_statistics(queue).skipped = 1 /\ get_statistics(queue).in_progress = 1
    /\ ~is_complete(get_statistics(queue))

\* C36 (as claimed): whenever a call of execute_one or execute_all returns,
\* with Ok or with an error, no transaction that the call moved to InProgress
\* still has status InProgress, also when no manager is set on the queue and
\* when the manager call itself returns an error.
C36_ReturnLeavesNoneInProgress ==
    \A p \in QCallers :
        LET c == qcall[p]
            moved == IF c.op = "one"
                     THEN IF c.from # "none" THEN {c.id} ELSE {}
                     ELSE {c.results[k].id : k \in 1..Len(c.results)}
        IN  c.pc = "returned" =>
                \A id \in moved :
                    FindTx(queue, id) # 0 => StatusOf(queue, id).tag # "InProgress"

\* C37 (as claimed): a transaction that execute_all leaves in status Failed
\* carries the error text and the retryable flag that the transaction manager
\* returned for it.
C37_FailedKeepsManagerResult ==
    [][\A p \in QCallers :
          LET c == qcall[p]
          IN  (/\ c.op = "all" /\ c.pc = "exec_ret" /\ c.res.kind = "failed"
               /\ qcall'[p].pc # "exec_ret"
               /\ FindTx(queue', c.id) # 0)
                  => StatusOf(queue', c.id) = Failed(c.res.error, c.res.retryable)]_vars

(***************************************************************************)
(*        MANAGER RETRY LOOP, ERROR CLASSIFICATION, NATIVE SIGNER          *)
(***************************************************************************)

\* An error text is modelled by the set of the marker substrings it contains:
\* the words the three classifiers look for.  Words are the markers a device,
\* cast or provider error is drawn from.
Words == {"denied", "Denied", "rejected", "busy", "hidapi", "locked", "timeout"}
Texts == SUBSET Words
NoText == {}

\* str::to_lowercase, marker by marker
LowerWord(m) ==
    CASE m = "Denied" -> "denied"
      [] m = "Overlapped I/O operation is in progress" ->
             "overlapped i/o operation is in progress"
      [] OTHER -> m
to_lowercase(t) == {LowerWord(m) : m \in t}

\* the markers found inside a marker
Parts(m) ==
    CASE m = "unlocked" -> {"unlocked", "locked"}
      [] m = "overlapped i/o operation is in progress" ->
             {"overlapped i/o operation is in progress", "overlapped i/o operation"}
      [] OTHER -> {m}

\* str::contains
contains(t, w) == \E m \in t : w \in Parts(m)

\* native_ledger.rs: const MAX_RETRY_ATTEMPTS: usize = 5
MAX_RETRY_ATTEMPTS == 5
\* retry_delay_ms of the manager the planner builds
RetryDelayMs == 2000
\* Bound: the max_retries a manager is configured with (the planner's is 2)
MaxRetries == 2

\* native_ledger.rs is_transient_error
is_transient_error(err_str) ==
    LET lower == to_lowercase(err_str)
    IN  \/ contains(lower, "overlapped i/o operation")
        \/ contains(lower, "overlapped io operation")
        \/ contains(lower, "busy")
        \/ /\ contains(lower, "hidapi")
           /\ ~contains(lower, "no device")
           /\ ~contains(lower, "device not found")
        \/ contains(lower, "transport") /\ contains(lower, "error")
        \/ contains(lower, "i/o error")
        \/ contains(lower, "io error")

\* native_ledger.rs map_ledger_error: the message each branch builds, as the
\* markers that message contains
map_ledger_error(err_str) ==
    LET lower == to_lowercase(err_str)
    IN  IF \/ contains(lower, "device not found")
           \/ contains(lower, "no device")
           \/ contains(lower, "hidapi")
        THEN \* "Ledger device not found. Please ensure it's connected and unlocked."
             {"device not found", "unlocked"}
        ELSE IF \/ contains(lower, "locked")
                \/ contains(lower, "6983")
                \/ contains(lower, "6985")
        THEN \* "Ledger is locked or Ethereum app is not open."
             {"locked", "not open"}
        ELSE IF contains(lower, "denied") \/ contains(lower, "rejected")
        THEN \* "Transaction was rejected on the Ledger device."
             {"rejected"}
        ELSE IF contains(lower, "timeout")
        THEN \* "Ledger operation timed out. Please try again."
             {"timed out"}
        ELSE IF contains(lower, "busy")
        THEN \* "Ledger device is busy. Please wait and try again."
             {"busy"}
        ELSE \* "Ledger error: {err_str}"
             err_str \cup {"error"}

\* anyhow!("Failed to send transaction: {}", e)
FailedToSend(e) == e \cup {"Failed to send transaction"}

\* anyhow!("cast send failed: {}", stderr)
CastSendFailed(stderr) == stderr \cup {"cast send failed"}

\* anyhow!("Could not parse transaction hash from: {}", tx_hash_str)
CouldNotParse(stdout) == stdout \cup {"Could not parse transaction hash"}

\* anyhow!("Timed out waiting for cast to finish ({}s).", timeout_secs)
CastTimedOut == {"Timed out waiting for cast"}

\* the FromHexError of `parts[1].parse()?` on a 0x word that is no hash
HashParseError == {"Invalid input length"}

\* LedgerTransactionManager::is_retryable_error
is_retryable_error(error) ==
    IF \/ contains(error, "rejected")
       \/ contains(error, "denied")
       \/ contains(error, "Denied")
    THEN FALSE
    ELSE \/ contains(error, "timeout")
         \/ contains(error, "network")
         \/ contains(error, "connection")
         \/ contains(error, "temporarily")
         \/ contains(error, "rate limit")
         \/ contains(error, "hidapi")
         \/ contains(error, "Overlapped I/O operation is in progress")
         \/ contains(error, "bad response")

\* Result<TransactionResult>
\* (Success carries tx_hash; `confirmed` says whether it carries the receipt's
\* block number and gas, or None and 0)
NoResult == [kind |-> "none", error |-> NoText, retryable |-> FALSE,
             hash |-> 0, confirmed |-> FALSE]
TxSuccess(h, c) == [kind |-> "success", error |-> NoText, retryable |-> FALSE,
                    hash |-> h, confirmed |-> c]
TxFailed(e, r) == [kind |-> "failed", error |-> e, retryable |-> r,
                   hash |-> 0, confirmed |-> FALSE]
TxErr == [kind |-> "err", error |-> NoText, retryable |-> FALSE,
          hash |-> 0, confirmed |-> FALSE]

\* the hash of the signed transaction, one per nonce, never zero
TxHashOf(nonce) == nonce + 1

\* Bound: wait_for_confirmation's max_attempts (confirmation_timeout_secs * 2)
MaxPolls == 2

\* a text the claim speaks of: it contains "denied" or "rejected"
Denial(e) == contains(e, "denied") \/ contains(e, "rejected")

SignOff ==
    /\ use_native = FALSE /\ max_retries = 0 /\ wait_conf = FALSE /\ sign_pc = "off"
    /\ tx_hash = 0 /\ polls = 0
    /\ attempt = 0 /\ delay = 0 /\ sleeps = <<>> /\ native_attempt = 0
    /\ send_err = NoText /\ raw_err = NoText /\ tx_result = NoResult
    /\ denied = FALSE /\ resigned = FALSE /\ broadcasts = 0

\* A manager at the entry of execute_transaction: attempt = 0, delay =
\* retry_delay_ms; current_nonce is None as new leaves it, or Some(count) as
\* initialize leaves it (prepare_split_transactions calls initialize).  The
\* provider's count does not change while the one transaction is being signed.
SignInit ==
    /\ use_native \in BOOLEAN
    /\ max_retries \in 0..MaxRetries
    /\ wait_conf \in BOOLEAN
    /\ tx_hash = 0 /\ polls = 0
    /\ sign_pc = "loop"
    /\ attempt = 0 /\ delay = RetryDelayMs /\ sleeps = <<>> /\ native_attempt = 0
    /\ send_err = NoText /\ raw_err = NoText /\ tx_result = NoResult
    /\ denied = FALSE /\ resigned = FALSE /\ broadcasts = 0
    /\ chain_count \in 0..MaxChainCount
    /\ current_nonce \in {None, Some(chain_count)}
    /\ nonce_lock = 0
    /\ assigned = <<>>
    /\ ncall = [c \in Callers |-> CallerIdle]

\* top of execute_transaction's loop: attempt += 1, get_next_nonce succeeds,
\* send_transaction_internal dispatches on use_native_ledger
ExecuteAttempt ==
    /\ sign_pc = "loop"
    /\ attempt' = attempt + 1
    /\ LET n == next_nonce(current_nonce, chain_count)
       IN  /\ current_nonce' = Some(n + 1)
           /\ assigned' = Append(assigned, n)
    /\ IF use_native
       THEN sign_pc' = "connect" /\ native_attempt' = 1
       ELSE sign_pc' = "cast" /\ UNCHANGED native_attempt
    /\ send_err' = NoText /\ raw_err' = NoText
    /\ UNCHANGED <<chain_count, use_native, max_retries, delay, sleeps,
                   tx_result, denied, resigned>>
    /\ UNCHANGED <<wait_conf, tx_hash, polls>>
    /\ UNCHANGED broadcasts
    /\ UNCHANGED signOthers

\* top of the loop when get_next_nonce fails: `?` returns Err
ExecuteNonceErr ==
    /\ sign_pc = "loop"
    /\ attempt' = attempt + 1
    /\ tx_result' = TxErr
    /\ sign_pc' = "done"
    /\ send_err' = NoText /\ raw_err' = NoText
    /\ UNCHANGED <<chain_count, current_nonce, assigned, use_native, max_retries,
                   delay, sleeps, native_attempt, denied, resigned>>
    /\ UNCHANGED <<wait_conf, tx_hash, polls>>
    /\ UNCHANGED broadcasts
    /\ UNCHANGED signOthers

\* the Err arms of the native signer's loop (connection and signing alike):
\* a transient error with attempts left sleeps and continues the loop, any
\* other returns Err(map_ledger_error(e))
NativeFail(e) ==
    IF is_transient_error(e) /\ native_attempt < MAX_RETRY_ATTEMPTS
    THEN /\ native_attempt' = native_attempt + 1
         /\ sign_pc' = "connect"
         /\ UNCHANGED <<send_err, raw_err>>
    ELSE /\ send_err' = map_ledger_error(e)
         /\ raw_err' = e
         /\ sign_pc' = "classify"
         /\ UNCHANGED native_attempt

\* sign_and_send_transaction_native: Ledger::new(derivation_path, chain_id)
NativeConnect ==
    /\ sign_pc = "connect"
    /\ \/ sign_pc' = "sign" /\ UNCHANGED <<native_attempt, send_err, raw_err>>
       \/ \E e \in Texts : NativeFail(e)
    /\ UNCHANGED <<chain_count, current_nonce, assigned, use_native, max_retries,
                   attempt, delay, sleeps, tx_result, denied, resigned>>
    /\ UNCHANGED <<wait_conf, tx_hash, polls>>
    /\ UNCHANGED broadcasts
    /\ UNCHANGED signOthers

\* sign_and_send_transaction_native: ledger.sign_transaction(&tx)
NativeSign ==
    /\ sign_pc = "sign"
    /\ resigned' = (resigned \/ denied)
    /\ \/ /\ sign_pc' = "broadcast"
          /\ UNCHANGED <<native_attempt, send_err, raw_err, denied>>
       \/ \E e \in Texts :
             /\ denied' = (denied \/ Denial(e))
             /\ NativeFail(e)
    /\ UNCHANGED <<chain_count, current_nonce, assigned, use_native, max_retries,
                   attempt, delay, sleeps, tx_result>>
    /\ UNCHANGED <<wait_conf, tx_hash, polls>>
    /\ UNCHANGED broadcasts
    /\ UNCHANGED signOthers

\* sign_and_send_transaction_native: provider.send_raw_transaction, no retry
NativeBroadcast ==
    /\ sign_pc = "broadcast"
    /\ \/ /\ sign_pc' = "sent"
          /\ tx_hash' = TxHashOf(assigned[Len(assigned)])
          /\ UNCHANGED <<send_err, raw_err>>
       \/ \E e \in Texts :
             /\ send_err' = FailedToSend(e)
             /\ raw_err' = e
             /\ sign_pc' = "classify"
             /\ UNCHANGED tx_hash
    /\ UNCHANGED <<chain_count, current_nonce, assigned, use_native, max_retries,
                   attempt, delay, sleeps, native_attempt, tx_result, denied, resigned>>
    /\ UNCHANGED <<wait_conf, polls>>
    /\ broadcasts' = broadcasts + 1
    /\ UNCHANGED signOthers

\* what run_command_with_timeout returns before cast has exited: the io error
\* of `command.spawn()?` (or of wait and the pipe readers) as the system words
\* it, or the text of the 300 s timeout
CastRunErrors == Texts \cup {CastTimedOut}

\* what the output of a cast that exited 0 gives when no hash is parsed from
\* it: the text built around the trimmed stdout, or the parse error of `?`
CastParseErrors == {CouldNotParse(stdout) : stdout \in Texts} \cup {HashParseError}

\* the cast backend: one `cast send --ledger` run signs and broadcasts.  It
\* returns the hash parsed from the output of a run that exited 0, and Err
\* when the run could not be started or timed out, when it exited non-zero
\* ("cast send failed: {stderr}"), or when no hash can be parsed from stdout.
CastSend ==
    /\ sign_pc = "cast"
    /\ resigned' = (resigned \/ denied)
    /\ \/ /\ sign_pc' = "sent"
          /\ tx_hash' = TxHashOf(assigned[Len(assigned)])
          /\ broadcasts' = broadcasts + 1
          /\ UNCHANGED <<send_err, raw_err, denied>>
       \/ \E e \in Texts :
             /\ denied' = (denied \/ Denial(e))
             /\ send_err' = CastSendFailed(e)
             /\ raw_err' = e
             /\ sign_pc' = "classify"
             /\ broadcasts' = broadcasts + 1
             /\ UNCHANGED tx_hash
       \/ \E e \in CastRunErrors \cup CastParseErrors :
             /\ send_err' = e
             /\ raw_err' = NoText
             /\ sign_pc' = "classify"
             \* no cast ran when `command.spawn()?` returned the error
             /\ \/ broadcasts' = broadcasts + 1
                \/ e \in Texts /\ UNCHANGED broadcasts
             /\ UNCHANGED <<tx_hash, denied>>
    /\ UNCHANGED <<chain_count, current_nonce, assigned, use_native, max_retries,
                   attempt, delay, sleeps, native_attempt, tx_result>>
    /\ UNCHANGED <<wait_conf, polls>>
    /\ UNCHANGED signOthers

\* the mutation of the Err arm that retries whatever the classification
ExecuteErrArm_any ==
    /\ sign_pc = "classify"
    /\ LET retryable == is_retryable_error(send_err)
       IN  IF attempt > max_retries
           THEN /\ tx_result' = TxFailed(send_err, retryable)
                /\ sign_pc' = "done"
                /\ UNCHANGED <<delay, sleeps>>
           ELSE /\ sleeps' = Append(sleeps, delay)
                /\ delay' = delay * 2
                /\ sign_pc' = "loop"
                /\ UNCHANGED tx_result
    /\ UNCHANGED <<chain_count, current_nonce, assigned, use_native, max_retries,
                   attempt, native_attempt, send_err, denied, resigned>>
    /\ UNCHANGED <<wait_conf, tx_hash, polls, raw_err>>
    /\ UNCHANGED broadcasts
    /\ UNCHANGED signOthers

\* execute_transaction, Err arm of the match: classify, then give up with
\* Failed or sleep `delay`, double it and go round again
ExecuteErrArm ==
    /\ sign_pc = "classify"
    /\ LET retryable == is_retryable_error(send_err)
       IN  IF attempt > max_retries \/ ~retryable
           THEN /\ tx_result' = TxFailed(send_err, retryable)
                /\ sign_pc' = "done"
                /\ UNCHANGED <<delay, sleeps>>
           ELSE /\ sleeps' = Append(sleeps, delay)
                /\ delay' = delay * 2
                /\ sign_pc' = "loop"
                /\ UNCHANGED tx_result
    /\ UNCHANGED <<chain_count, current_nonce, assigned, use_native, max_retries,
                   attempt, native_attempt, send_err, denied, resigned>>
    /\ UNCHANGED <<wait_conf, tx_hash, polls, raw_err>>
    /\ UNCHANGED broadcasts
    /\ UNCHANGED signOthers

\* execute_transaction, Ok arm: without wait_for_confirmation Success at
\* once, with no block number and gas 0; with it, wait_for_confirmation
ExecuteOkArm ==
    /\ sign_pc = "sent"
    /\ IF wait_conf
       THEN sign_pc' = "confirm" /\ UNCHANGED tx_result
       ELSE sign_pc' = "done" /\ tx_result' = TxSuccess(tx_hash, FALSE)
    /\ UNCHANGED <<chain_count, current_nonce, assigned, use_native, max_retries,
                   attempt, delay, sleeps, native_attempt, send_err, denied, resigned>>
    /\ UNCHANGED <<wait_conf, tx_hash, polls, raw_err>>
    /\ UNCHANGED broadcasts
    /\ UNCHANGED signOthers

\* the mutation of ConfirmPoll that reports a confirmation timeout as a failure
ConfirmPoll_fail ==
    /\ sign_pc = "confirm"
    /\ \E answer \in {"receipt", "none", "error"} :
          IF answer = "receipt"
          THEN /\ tx_result' = TxSuccess(tx_hash, TRUE)
               /\ sign_pc' = "done"
               /\ UNCHANGED polls
          ELSE /\ polls' = polls + 1
               /\ IF polls + 1 >= MaxPolls
                  THEN tx_result' = TxFailed({"timeout"}, TRUE) /\ sign_pc' = "done"
                  ELSE UNCHANGED <<tx_result, sign_pc>>
    /\ UNCHANGED <<chain_count, current_nonce, assigned, use_native, max_retries,
                   attempt, delay, sleeps, native_attempt, send_err, denied, resigned>>
    /\ UNCHANGED <<wait_conf, tx_hash, raw_err>>
    /\ UNCHANGED broadcasts
    /\ UNCHANGED signOthers

\* one round of wait_for_confirmation's loop and, when it ends, the match on
\* its result: get_transaction_receipt answers with a receipt (Success with
\* its block and gas), with none or with an error; after max_attempts rounds
\* without a receipt it returns Err, and the result is Success with no block
\* number and gas 0
ConfirmPoll ==
    /\ sign_pc = "confirm"
    /\ \E answer \in {"receipt", "none", "error"} :
          IF answer = "receipt"
          THEN /\ tx_result' = TxSuccess(tx_hash, TRUE)
               /\ sign_pc' = "done"
               /\ UNCHANGED polls
          ELSE /\ polls' = polls + 1
               /\ IF polls + 1 >= MaxPolls
                  THEN tx_result' = TxSuccess(tx_hash, FALSE) /\ sign_pc' = "done"
                  ELSE UNCHANGED <<tx_result, sign_pc>>
    /\ UNCHANGED <<chain_count, current_nonce, assigned, use_native, max_retries,
                   attempt, delay, sleeps, native_attempt, send_err, denied, resigned>>
    /\ UNCHANGED <<wait_conf, tx_hash, raw_err>>
    /\ UNCHANGED broadcasts
    /\ UNCHANGED signOthers

SignNext ==
    \/ ExecuteAttempt
    \/ ExecuteNonceErr
    \/ NativeConnect
    \/ NativeSign
    \/ NativeBroadcast
    \/ CastSend
    \/ ExecuteErrArm
    \/ ExecuteOkArm
    \/ ConfirmPoll

\* ---- the signing claims ----

\* C7 (as claimed): once a signing attempt has failed with an error whose
\* text contains "denied" or "rejected", no further signing attempt is made
\* for the transaction, by the manager's loop or by the native signer's, and
\* the call's result is Failed with retryable = false.
C7_DenialEndsSigning ==
    /\ ~resigned
    /\ (denied /\ sign_pc = "done") =>
           (tx_result.kind = "failed" /\ ~tx_result.retryable)

\* C16: one execute_transaction call makes at most max_retries + 1 attempts;
\* it goes round again only after an attempt k <= max_retries that failed with
\* an error classified retryable; the sleep between attempt k and attempt
\* k + 1 is retry_delay_ms x 2^(k-1); when it gives up it returns Failed with
\* the last error and that error's classification.
C16_RetryLoop ==
    /\ attempt <= max_retries + 1
    /\ (sign_pc = "loop" /\ attempt >= 1) =>
           (is_retryable_error(send_err) /\ attempt <= max_retries)
    /\ Len(sleeps) = (IF sign_pc = "loop" \/ attempt = 0 THEN attempt ELSE attempt - 1)
    /\ \A k \in 1..Len(sleeps) : sleeps[k] = RetryDelayMs * 2^(k - 1)
    /\ (sign_pc = "done" /\ tx_result.kind = "failed") =>
           /\ tx_result.error = send_err
           /\ tx_result.retryable = is_retryable_error(send_err)
           /\ (tx_result.retryable => attempt = max_retries + 1)

\* a call that gave up on a retryable error after its third attempt
C16_Witness ==
    /\ sign_pc = "done" /\ tx_result.kind = "failed" /\ tx_result.retryable
    /\ max_retries >= 2 /\ attempt = max_retries + 1
    /\ Len(sleeps) = max_retries

\* C17: once a broadcast has returned a hash, execute_transaction does not
\* go back to signing and returns Success with that hash: with the receipt's
\* block number and gas when a receipt came within the confirmation window,
\* with none and 0 when confirmation-wait is off or ended without a receipt;
\* never Failed.
C17_SentIsSuccess ==
    tx_hash # 0 =>
        /\ sign_pc \in {"sent", "confirm", "done"}
        /\ sign_pc = "done" =>
               /\ tx_result.kind = "success"
               /\ tx_result.hash = tx_hash
               /\ tx_result.confirmed = (wait_conf /\ polls < MaxPolls)

\* a broadcast on a second attempt whose confirmation wait ran out
C17_Witness ==
    /\ sign_pc = "done" /\ tx_hash # 0 /\ attempt = 2
    /\ wait_conf /\ polls = MaxPolls
    /\ tx_result.kind = "success" /\ ~tx_result.confirmed

\* C18: while the on-chain count is c and stays c, the k get_next_nonce calls
\* made one after another (one per attempt of execute_transaction) return
\* c, c + 1, ..., c + k - 1 and leave current_nonce = Some(c + k), whether
\* the manager was initialized (Some(c)) or not (None) before the first call.
C18_SequentialNonces ==
    /\ \A i \in 1..Len(assigned) : assigned[i] = chain_count + i - 1
    /\ Len(assigned) >= 1 => current_nonce = Some(chain_count + Len(assigned))

\* three calls made, from a count that is not zero
C18_Witness ==
    /\ Len(assigned) = 3 /\ chain_count = 1
    /\ assigned = <<1, 2, 3>>

\* an error text with none of the signals an error class is known by:
\* no rejection or denial, not locked, no missing device, no transient I/O
\* or network signal
UnknownError(e) ==
    LET lower == to_lowercase(e)
    IN  /\ ~contains(lower, "rejected") /\ ~contains(lower, "denied")
        /\ ~contains(lower, "locked")
        /\ ~contains(lower, "device not found") /\ ~contains(lower, "no device")
        /\ ~is_transient_error(e)
        /\ ~contains(lower, "timeout")

\* C20 (as claimed): a signing failure whose text matches none of the known
\* signals is classified retryable = true, and is retried until max_retries
\* is exhausted: when execute_transaction returns Failed for it, retryable is
\* true and max_retries + 1 attempts were made.
C20_UnknownIsRetryable ==
    (sign_pc = "done" /\ tx_result.kind = "failed" /\ UnknownError(tx_result.error))
        => (tx_result.retryable /\ attempt = max_retries + 1)

\* an error text of a transient I/O condition and nothing else: a device
\* timeout, a busy HID device
TransientIO(e) == e # {} /\ e \subseteq {"timeout", "busy"}

\* C21 (as claimed): a signing failure caused by a transient I/O condition
\* reaches the manager classified retryable = true, on both signer backends,
\* also after the native backend has rewritten the device error.
C21_TransientIsRetryable ==
    (sign_pc = "done" /\ tx_result.kind = "failed" /\ TransientIO(raw_err))
        => tx_result.retryable

\* an error text that signals a locked device or a closed app
LockedSignal(e) == contains(to_lowercase(e), "locked")

\* C22 (as claimed): a signing failure whose text signals a locked device is
\* classified retryable = false and is not retried by the manager, on both
\* backends, whatever other words the text contains.
C22_LockedNotRetried ==
    /\ (sign_pc = "done" /\ tx_result.kind = "failed" /\ LockedSignal(raw_err))
           => ~tx_result.retryable
    /\ (sign_pc = "loop" /\ attempt >= 1) => ~LockedSignal(raw_err)

\* C34 (as claimed): within one execute_transaction call of the manager, once
\* a broadcast call (send_raw_transaction or cast send) has been issued for the
\* transaction, no further signing attempt is made for it, whatever the
\* broadcast reports; one execution submits the transfer at most once.
C34_NoSigningAfterBroadcast ==
    /\ broadcasts <= 1
    /\ broadcasts >= 1 => sign_pc \notin {"connect", "sign", "cast"}

\* C35 (as claimed): with no transaction sent for the source from outside the
\* manager, the successful broadcasts carry consecutive nonces from the initial
\* on-chain count on, however many signing attempts failed before: the first
\* successful broadcast of a call carries the on-chain count.
C35_NoNonceGap ==
    tx_hash # 0 => tx_hash = TxHashOf(chain_count)

(***************************************************************************)
(*              BATCH HELPER (execute_transaction_batch)                   *)
(***************************************************************************)

\* Bound: the transactions handed to execute_transaction_batch.
MaxBatch == 3

\* what one execute_transaction call returns to the batch: Ok(Success),
\* Ok(Failed) retryable or not, or Err (get_next_nonce's `?`)
ExecOk(r) == [ok |-> TRUE, result |-> r, err |-> NoText]
ExecErr(e) == [ok |-> FALSE, result |-> NoResult, err |-> e]
ExecOutcomes ==
    {ExecOk(TxSuccess(1, TRUE)), ExecOk(TxFailed({"timeout"}, TRUE)),
     ExecOk(TxFailed({"rejected"}, FALSE)), ExecErr({"busy"})}

\* one call of progress_callback(index + 1, total, &result)
Callback(position, total, result) ==
    [position |-> position, total |-> total, result |-> result]

BatchOff ==
    /\ batch_pc = "off" /\ has_callback = FALSE /\ batch_total = 0
    /\ batch_exec = <<>> /\ batch_results = <<>> /\ callbacks = <<>>

\* entry of execute_transaction_batch: total = transactions.len(), results empty
BatchInit ==
    /\ batch_pc = "run"
    /\ has_callback \in BOOLEAN
    /\ batch_total \in 0..MaxBatch
    /\ batch_exec = <<>> /\ batch_results = <<>> /\ callbacks = <<>>

\* what the loop body pushes to results for an outcome of execute_transaction
BatchResult(o) == IF o.ok THEN o.result ELSE TxFailed(o.err, FALSE)

\* whether the loop body calls the callback for an outcome
BatchCalls(o) == has_callback /\ o.ok

\* one round of the for loop: the delays (index > 0), execute_transaction,
\* the match on what it returned
BatchStep ==
    /\ batch_pc = "run"
    /\ Len(batch_exec) < batch_total
    /\ \E o \in ExecOutcomes :
          /\ batch_exec' = Append(batch_exec, o)
          /\ batch_results' = Append(batch_results, BatchResult(o))
          /\ callbacks' = IF BatchCalls(o)
                          THEN Append(callbacks,
                                      Callback(Len(batch_exec) + 1, batch_total, o.result))
                          ELSE callbacks
    /\ UNCHANGED <<batch_pc, has_callback, batch_total>>
    /\ UNCHANGED batchOthers

\* the loop is over: results is returned
BatchReturn ==
    /\ batch_pc = "run"
    /\ Len(batch_exec) = batch_total
    /\ batch_pc' = "done"
    /\ UNCHANGED <<has_callback, batch_total, batch_exec, batch_results, callbacks>>
    /\ UNCHANGED batchOthers

BatchNext == BatchStep \/ BatchReturn

\* ---- the batch claim ----

\* C19 (as claimed): execute_transaction_batch returns one result per input
\* transaction, in input order, and calls the progress callback once after
\* each transaction with (its position counted from 1, total, its result),
\* also for a transaction whose execute_transaction call returned Err.
C19_CallbackPerTransaction ==
    batch_pc = "done" =>
        /\ Len(batch_results) = batch_total
        /\ \A i \in 1..batch_total : batch_results[i] = BatchResult(batch_exec[i])
        /\ has_callback =>
               /\ Len(callbacks) = batch_total
               /\ \A i \in 1..batch_total :
                      callbacks[i] = Callback(i, batch_total, batch_results[i])

(***************************************************************************)
(*                GLOBAL DEVICE LOCK (ledger_lock.rs)                      *)
(***************************************************************************)

\* the tasks that use the Signer concurrently
DevTasks == 1..2

\* the Signer operations: get_ledger_address_native,
\* sign_and_send_transaction_native, get_ledger_address_with_retry_config
\* (get_address_via_cast), sign_and_send_transaction_with_full_derivation
DevOps == {"native_address", "native_sign", "cast_address", "cast_sign"}

\* what a device call ends with: success, an error the operation retries
\* while attempts remain, an error it returns at once
DevOutcomes == {"ok", "retry", "fail"}

\* a call on the device is in flight: Ledger::new ("connect"), get_address /
\* sign_transaction / the cast child process ("use")
InFlight(t) == dev[t].pc \in {"connect", "use"}

DevIdle == [op |-> "none", pc |-> "idle", attempt |-> 0]

DevOff == ledger_lock = 0 /\ dev = [t \in DevTasks |-> DevIdle]

DevInit == ledger_lock = 0 /\ dev = [t \in DevTasks |-> DevIdle]

\* a task calls a Signer operation: attempt 1 of its loop
DevStart(t) ==
    /\ dev[t].pc = "idle"
    /\ \E op \in DevOps :
          dev' = [dev EXCEPT ![t] = [op |-> op, pc |-> "lock", attempt |-> 1]]
    /\ UNCHANGED ledger_lock
    /\ UNCHANGED devOthers

\* let _lock = ledger_lock().lock().await; then the first device call
DevLock(t) ==
    /\ dev[t].pc = "lock"
    /\ ledger_lock = 0
    /\ ledger_lock' = t
    /\ dev' = [dev EXCEPT ![t].pc =
                  IF dev[t].op \in {"native_address", "native_sign"}
                  THEN "connect" ELSE "use"]
    /\ UNCHANGED devOthers

\* the mutation of ReleaseBeforeSleep that keeps the guard over the sleep
ReleaseBeforeSleep_keep(t) == t

\* who holds the lock when a task goes to sleep between two attempts:
\* drop(_lock) in the native loops, the return of get_address_via_cast in the
\* cast derivation loop
ReleaseBeforeSleep(t) == 0

\* how a device call that ended with outcome o goes on: a retried error with
\* attempts left releases the lock and sleeps; any other error returns, and
\* the guard is dropped with the scope
DevFailed(t, o) ==
    IF o = "retry" /\ dev[t].op # "cast_sign" /\ dev[t].attempt < MAX_RETRY_ATTEMPTS
    THEN /\ ledger_lock' = ReleaseBeforeSleep(t)
         /\ dev' = [dev EXCEPT ![t].pc = "sleep"]
    ELSE /\ ledger_lock' = 0
         /\ dev' = [dev EXCEPT ![t] = DevIdle]

\* Ledger::new returns
DevConnect(t) ==
    /\ dev[t].pc = "connect"
    /\ \E o \in DevOutcomes :
          IF o = "ok"
          THEN dev' = [dev EXCEPT ![t].pc = "use"] /\ UNCHANGED ledger_lock
          ELSE DevFailed(t, o)
    /\ UNCHANGED devOthers

\* get_address, sign_transaction or the cast child process returns; after a
\* native signature the broadcast follows with the guard still held
DevUse(t) ==
    /\ dev[t].pc = "use"
    /\ \E o \in DevOutcomes :
          IF o = "ok"
          THEN IF dev[t].op = "native_sign"
               THEN dev' = [dev EXCEPT ![t].pc = "broadcast"] /\ UNCHANGED ledger_lock
               ELSE ledger_lock' = 0 /\ dev' = [dev EXCEPT ![t] = DevIdle]
          ELSE DevFailed(t, o)
    /\ UNCHANGED devOthers

\* provider.send_raw_transaction returns (Ok or Err): the function returns
DevBroadcast(t) ==
    /\ dev[t].pc = "broadcast"
    /\ ledger_lock' = 0
    /\ dev' = [dev EXCEPT ![t] = DevIdle]
    /\ UNCHANGED devOthers

\* the sleep between two attempts is over: continue, next attempt
DevWake(t) ==
    /\ dev[t].pc = "sleep"
    /\ dev' = [dev EXCEPT ![t].pc = "lock", ![t].attempt = dev[t].attempt + 1]
    /\ UNCHANGED ledger_lock
    /\ UNCHANGED devOthers

DevNext ==
    \/ \E t \in DevTasks : DevStart(t)
    \/ \E t \in DevTasks : DevLock(t)
    \/ \E t \in DevTasks : DevConnect(t)
    \/ \E t \in DevTasks : DevUse(t)
    \/ \E t \in DevTasks : DevBroadcast(t)
    \/ \E t \in DevTasks : DevWake(t)

\* ---- the device-lock claim ----

\* C23: at most one Signer operation has a device call in flight at any
\* time; a task with a call in flight holds the global lock, from before the
\* call until it has ended; a task sleeping between retries does not hold it.
C23_OneSignerOperation ==
    /\ Cardinality({t \in DevTasks : InFlight(t)}) <= 1
    /\ \A t \in DevTasks : InFlight(t) => ledger_lock = t
    /\ \A t \in DevTasks : dev[t].pc = "sleep" => ledger_lock # t

\* one task sleeps before its third attempt while the other signs
C23_Witness ==
    /\ dev[1].pc = "sleep" /\ dev[1].attempt = 2 /\ dev[1].op = "native_sign"
    /\ dev[2].pc = "use" /\ dev[2].op = "cast_sign" /\ ledger_lock = 2

(***************************************************************************)
(*                     BALANCE SCANS (balance.rs)                          *)
(***************************************************************************)

\* scan_for_funded_addresses: let scan_limit = start_index + 50
ScanWindow == 50

\* Bounds: the streak targets, and the number of funded addresses the chain
\* holds in the scanned range.
MaxTarget == 2
MaxFunded == 1

\* the start indices (0, where start_index.saturating_sub(1) saturates, and
\* 1), and the balances an address may hold (zero or not)
StartIndexes == {0, 1}
ScanBalances == {0, 1}

ScanKinds == {"empty", "empty_stream", "funded", "funded_stream"}
Streaming(k) == k \in {"empty_stream", "funded_stream"}
FundedKind(k) == k \in {"funded", "funded_stream"}

\* the targets a scan is called with; the funded scans also with one that
\* the window cannot reach
Targets(k) ==
    (0..MaxTarget) \cup (IF FundedKind(k) THEN {ScanWindow + 1} ELSE {})

\* BalanceScanRecord (the address and path follow from the index)
ScanRecord(index, balance) == [index |-> index, balance |-> balance]

NoScanResult == [kind |-> "none"]

\* BalanceScanResult
BalanceScanResult(s) ==
    [kind |-> "BalanceScanResult",
     records |-> s.records,
     empty_addresses |-> s.empty_sequence,
     last_scanned_index |-> s.last_scanned_index,
     met_target |-> (s.consecutive_empty >= s.target),
     cancelled |-> s.cancelled]

\* FundedAddressScan
FundedAddressScan(s) ==
    [kind |-> "FundedAddressScan", funded |-> s.funded, empty |-> s.empty]

ResultOf(s) == IF FundedKind(s.kind) THEN FundedAddressScan(s) ELSE BalanceScanResult(s)

\* ScanProgress / FundedScanProgress
AddressFound(r) == [kind |-> "AddressFound", record |-> r, result |-> NoScanResult]
Completed(res) == [kind |-> "Completed", record |-> ScanRecord(0, 0), result |-> res]

\* the entry of a scan function of kind k: the locals as declared
ScanStart(k, start, target) ==
    [kind |-> k, pc |-> "top", start |-> start, target |-> target,
     index |-> start,
     consecutive_empty |-> 0,
     last_scanned_index |-> IF start = 0 THEN 0 ELSE start - 1,
     empty_sequence |-> <<>>, records |-> <<>>, cancelled |-> FALSE,
     funded |-> <<>>, empty |-> <<>>,
     ret |-> "none", result |-> NoScanResult,
     \* history: the indices derived, the records read, the examinations of
     \* the signal in this iteration, a call begun after the signal was sent,
     \* the call that failed
     probed |-> <<>>, scanned |-> <<>>, checked |-> 0, late |-> FALSE,
     failed |-> "none"]

ScanOff ==
    /\ scan = [ScanStart("empty", 0, 0) EXCEPT !.pc = "off"]
    /\ chan = <<>> /\ cancel = "none"

ScanInit ==
    /\ \E k \in ScanKinds, start \in StartIndexes :
          \E target \in Targets(k) : scan = ScanStart(k, start, target)
    /\ chan = <<>> /\ cancel = "none"

\* the mutation of scan_limit that lets one more index in
scan_limit_off(start_index) == start_index + ScanWindow + 1

\* let scan_limit = start_index + 50
scan_limit(start_index) == start_index + ScanWindow

\* the mutation of NextStreak that keeps the streak over a funded address
NextStreak_noreset(consecutive_empty, balance) ==
    IF balance = 0 THEN consecutive_empty + 1 ELSE consecutive_empty

\* if balance.is_zero() { consecutive_empty += 1 } else { consecutive_empty = 0 }
NextStreak(consecutive_empty, balance) ==
    IF balance = 0 THEN consecutive_empty + 1 ELSE 0

\* the mutation of CancelSeen that never looks at the signal
CancelSeen_never(k) == FALSE

\* cancel_receiver.try_recv().is_ok(), a streaming scan's look at the signal
CancelSeen(k) == Streaming(k) /\ cancel = "sent"

\* the function returns Ok: the result is built, a streaming scan sends it
\* as Completed
Finish(s) ==
    /\ scan' = [s EXCEPT !.pc = "done", !.ret = "ok", !.result = ResultOf(s)]
    /\ chan' = IF Streaming(s.kind) THEN Append(chan, Completed(ResultOf(s))) ELSE chan

\* the loop goes on to its device call
GoCall(s, looked) ==
    /\ scan' = [s EXCEPT !.pc = "call",
                         !.checked = IF looked THEN s.checked + 1 ELSE s.checked,
                         !.late = (s.late \/ (Streaming(s.kind) /\ cancel # "none"))]
    /\ UNCHANGED chan

\* the top of an iteration: the loop condition and, in the streaming scans,
\* the look at the cancellation signal (before the target test in
\* scan_consecutive_empty_streaming, after the while condition in
\* scan_for_funded_addresses_streaming)
ScanTop ==
    /\ scan.pc = "top"
    /\ LET s == scan
           running == IF FundedKind(s.kind)
                      THEN /\ s.index < scan_limit(s.start)
                           /\ s.consecutive_empty < s.target
                      ELSE s.consecutive_empty < s.target
       IN  IF s.kind = "empty_stream"
           THEN IF CancelSeen(s.kind)
                THEN /\ cancel' = "taken"
                     /\ Finish([s EXCEPT !.cancelled = TRUE])
                ELSE /\ UNCHANGED cancel
                     /\ IF running THEN GoCall(s, TRUE) ELSE Finish(s)
           ELSE IF s.kind = "funded_stream"
           THEN IF ~running
                THEN UNCHANGED cancel /\ Finish(s)
                ELSE IF CancelSeen(s.kind)
                     THEN cancel' = "taken" /\ Finish(s)
                     ELSE UNCHANGED cancel /\ GoCall(s, TRUE)
           ELSE /\ UNCHANGED cancel
                /\ IF running THEN GoCall(s, FALSE) ELSE Finish(s)
    /\ UNCHANGED scanOthers

\* the calls of an iteration, when address derivation fails: the empty scans
\* set cancelled and break, the funded scans break
ScanDeriveErr ==
    /\ scan.pc = "call"
    /\ LET s == [scan EXCEPT !.probed = Append(scan.probed, scan.index),
                             !.failed = "derive", !.checked = 0]
       IN  IF FundedKind(s.kind)
           THEN Finish(s)
           ELSE Finish([s EXCEPT !.cancelled = TRUE])
    /\ UNCHANGED cancel
    /\ UNCHANGED scanOthers

\* the calls of an iteration, when provider.get_balance fails: `?` returns
\* the error
ScanBalanceErr ==
    /\ scan.pc = "call"
    /\ scan' = [scan EXCEPT !.probed = Append(scan.probed, scan.index),
                            !.failed = "balance", !.checked = 0,
                            !.pc = "done", !.ret = "err"]
    /\ UNCHANGED <<chan, cancel>>
    /\ UNCHANGED scanOthers

\* the calls of an iteration, when both succeed: the record is sent (streaming)
\* and stored, the streak is counted, index += 1
ScanRecordFound ==
    /\ scan.pc = "call"
    /\ \E balance \in ScanBalances :
          /\ balance > 0 =>
                 Cardinality({i \in 1..Len(scan.scanned) : scan.scanned[i].balance > 0})
                     < MaxFunded
          /\ LET s == scan
                 record == ScanRecord(s.index, balance)
                 common == [s EXCEPT !.pc = "top",
                                     !.probed = Append(s.probed, s.index),
                                     !.scanned = Append(s.scanned, record),
                                     !.checked = 0,
                                     !.consecutive_empty =
                                         NextStreak(s.consecutive_empty, balance),
                                     !.index = s.index + 1]
             IN  /\ chan' = IF Streaming(s.kind)
                            THEN Append(chan, AddressFound(record)) ELSE chan
                 /\ scan' =
                      IF FundedKind(s.kind)
                      THEN IF balance = 0
                           THEN [common EXCEPT !.empty = Append(s.empty, record)]
                           ELSE [common EXCEPT !.funded = Append(s.funded, record)]
                      ELSE [common EXCEPT
                              !.records = Append(s.records, record),
                              !.last_scanned_index = s.index,
                              !.empty_sequence =
                                  IF balance = 0
                                  THEN Append(s.empty_sequence, s.index)
                                  ELSE <<>>]
    /\ UNCHANGED cancel
    /\ UNCHANGED scanOthers

\* the owner of the scan sends the cancellation signal
CancelSend ==
    /\ Streaming(scan.kind)
    /\ scan.pc \in {"top", "call"}
    /\ cancel = "none"
    /\ cancel' = "sent"
    /\ UNCHANGED <<scan, chan>>
    /\ UNCHANGED scanOthers

ScanNext ==
    \/ ScanTop
    \/ ScanDeriveErr
    \/ ScanBalanceErr
    \/ ScanRecordFound
    \/ CancelSend

\* ---- the scan claims ----

\* the length of the maximal run of zero balances that ends at recs[n]
RECURSIVE ZerosBefore(_, _)
ZerosBefore(recs, n) ==
    IF n = 0 \/ recs[n].balance # 0 THEN 0 ELSE 1 + ZerosBefore(recs, n - 1)

\* the length of the maximal run of zero balances at the end of recs
TailZeros(recs) == ZerosBefore(recs, Len(recs))

\* C24 (as claimed): when address derivation or the balance lookup fails
\* during a consecutive-empty scan, the scan ends with a normal result that
\* has cancelled = true and holds every record gathered before the failure.
C24_FailureKeepsRecords ==
    (scan.pc = "done" /\ ~FundedKind(scan.kind) /\ scan.failed # "none") =>
        /\ scan.ret = "ok"
        /\ scan.result.kind = "BalanceScanResult"
        /\ scan.result.cancelled
        /\ scan.result.records = scan.scanned

\* C25: without failure and cancellation a consecutive-empty scan visits
\* start, start + 1, ... in order and stops right after the first index at
\* which the last `target` balances are all zero; empty_addresses is the
\* maximal run of zero-balance records at the end of records,
\* last_scanned_index the index of the last record, met_target true iff that
\* run has at least `target` elements.
C25_ConsecutiveEmptyResult ==
    (/\ scan.pc = "done" /\ ~FundedKind(scan.kind)
     /\ scan.failed = "none" /\ cancel # "taken") =>
        LET res == scan.result
            recs == res.records
            n == Len(recs)
            run == TailZeros(recs)
        IN  /\ scan.ret = "ok"
            /\ recs = scan.scanned
            /\ Len(scan.probed) = n
            /\ \A i \in 1..n :
                  recs[i].index = scan.start + i - 1 /\ scan.probed[i] = scan.start + i - 1
            /\ run >= scan.target
            /\ \A m \in 0..(n - 1) : ZerosBefore(recs, m) < scan.target
            /\ res.empty_addresses = [i \in 1..run |-> recs[n - run + i].index]
            /\ n > 0 => res.last_scanned_index = recs[n].index
            /\ res.met_target = (run >= scan.target)
            /\ ~res.cancelled

\* a scan from index 1 with target 2 over balances 0, 1, 0, 0
C25_Witness ==
    /\ scan.pc = "done" /\ scan.kind = "empty_stream" /\ scan.ret = "ok"
    /\ scan.failed = "none" /\ cancel = "none"
    /\ scan.start = 1 /\ scan.target = 2
    /\ Len(scan.records) = 4 /\ scan.records[2].balance > 0
    /\ scan.result.empty_addresses = <<3, 4>>

\* C26: the funded scans never derive or query an index >= start + 50, make
\* no call once `target` consecutive zero balances have been seen, and put
\* every scanned record (one per index) in exactly one bucket: the empty
\* bucket holds the records with balance zero, the funded bucket the others.
C26_FundedWindow ==
    FundedKind(scan.kind) =>
        /\ \A i \in 1..Len(scan.probed) : scan.probed[i] < scan.start + 50
        /\ scan.pc = "call" => TailZeros(scan.scanned) < scan.target
        /\ \A i \in 1..Len(scan.scanned) : scan.scanned[i].index = scan.start + i - 1
        /\ scan.empty = SelectSeq(scan.scanned, LAMBDA r : r.balance = 0)
        /\ scan.funded = SelectSeq(scan.scanned, LAMBDA r : r.balance # 0)

\* a funded scan that used up its window: 50 indices, the last start + 49
C26_Witness ==
    /\ scan.kind = "funded" /\ scan.pc = "done" /\ scan.start = 1
    /\ Len(scan.probed) = 50 /\ scan.probed[50] = 50
    /\ Len(scan.funded) = 1 /\ Len(scan.empty) = 49

\* C27 (as claimed): every run of a streaming scan, however it ends, emits
\* its AddressFound events in increasing index order and then exactly one
\* Completed event, the last on the channel.
C27_CompletedIsLast ==
    (Streaming(scan.kind) /\ scan.pc = "done") =>
        /\ Len(chan) >= 1
        /\ chan[Len(chan)].kind = "Completed"
        /\ \A i \in 1..(Len(chan) - 1) : chan[i].kind = "AddressFound"
        /\ \A i, j \in 1..(Len(chan) - 1) :
              i < j => chan[i].record.index < chan[j].record.index

\* C28, its state part: a streaming scan makes no call in an iteration that
\* began after the signal was sent, has looked at the signal exactly once
\* when it makes the calls of an iteration, and the consecutive-empty variant
\* that took the signal returns its result with cancelled = true as Completed.
C28_CancelState ==
    Streaming(scan.kind) =>
        /\ ~scan.late
        /\ scan.pc = "call" => scan.checked = 1
        /\ cancel = "taken" =>
              /\ scan.pc = "done" /\ scan.ret = "ok"
              /\ chan[Len(chan)] = Completed(scan.result)
              /\ scan.kind = "empty_stream" => scan.result.cancelled

\* C28: the cancellation signal is examined once per iteration before the
\* calls of that iteration; once it was sent no iteration begins its calls;
\* sending it changes nothing of the scan, and a call in flight ends with its
\* own outcome.
C28_CooperativeCancel ==
    /\ []C28_CancelState
    /\ [][/\ (scan.pc = "top" /\ cancel # "none") => scan'.pc # "call"
          /\ (cancel = "none" /\ cancel' = "sent") => (scan' = scan /\ chan' = chan)
          /\ (scan.pc = "call" /\ scan' # scan) =>
                 scan'.probed = Append(scan.probed, scan.index)]_vars

\* a consecutive-empty streaming scan cancelled after two records
C28_Witness ==
    /\ scan.kind = "empty_stream" /\ scan.pc = "done" /\ cancel = "taken"
    /\ Len(scan.records) = 2 /\ scan.result.cancelled
    /\ Len(chan) = 3

(***************************************************************************)
(*            RECIPIENT DISCOVERY (find_empty_receivers)                   *)
(***************************************************************************)

\* Bound: the number of recipients asked for.
MaxNeeded == 2

\* let max_scan = start_index + 200
FindWindow == 200

\* the indices whose addresses may be empty, funded or used at each query (every
\* later index is in use for certain), and the start indices of the scan
FindIndexes == {0, 1, 2}
FindStarts == {0, 1}

\* the pre-found lists a caller may pass: None, or records by index
RECURSIVE SeqsUpTo(_, _)
SeqsUpTo(S, n) ==
    IF n = 0 THEN {<<>>}
    ELSE LET shorter == SeqsUpTo(S, n - 1)
         IN shorter \cup {Append(q, x) : q \in {r \in shorter : Len(r) = n - 1}, x \in S}

NoPreFound == [some |-> FALSE, list |-> <<>>]
PreFound(l) == [some |-> TRUE, list |-> l]
PreFoundLists == {NoPreFound} \cup {PreFound(l) : l \in SeqsUpTo(FindIndexes, 2)}

\* what provider.get_balance / get_transaction_count answer for an address:
\* a balance and a count (0 or 1 stands for zero or not), or an RPC error
QueryOk(balance, nonce) == [ok |-> TRUE, balance |-> balance, nonce |-> nonce]
QueryErr == [ok |-> FALSE, balance |-> 0, nonce |-> 0]
Queries(index) ==
    IF index \in FindIndexes
    THEN {QueryOk(b, n) : b \in {0, 1}, n \in {0, 1}} \cup {QueryErr}
    ELSE {QueryOk(0, 1)}

\* get_ledger_address_with_retry_config answers Ok(addr) or Err
Derivations(index) == IF index \in FindIndexes THEN {"ok", "err"} ELSE {"ok"}

\* the mutation of still_empty that trusts the caller's record
still_empty_trust(balance, nonce) == TRUE

\* if balance.is_zero() && nonce == 0
still_empty(balance, nonce) == balance = 0 /\ nonce = 0

\* PrepareProgress
CheckingPreFound(current, total, found_empty) ==
    [kind |-> "CheckingPreFound", a |-> current, b |-> total, c |-> found_empty]
ScanningIndex(index, found_empty, needed) ==
    [kind |-> "ScanningIndex", a |-> index, b |-> found_empty, c |-> needed]
Complete(total_transactions) ==
    [kind |-> "Complete", a |-> total_transactions, b |-> 0, c |-> 0]

\* sender.send(event) when progress_sender is Some
SendProgress(f, event) ==
    progress' = IF f.has_sender THEN Append(progress, event) ELSE progress

\* the entry of find_empty_receivers: the parameters and the locals as declared
FindStart(source_index, needed, start_index, pre_found, has_sender) ==
    [pc |-> "pre", source_index |-> source_index, needed |-> needed,
     start_index |-> start_index, pre_found |-> pre_found,
     has_sender |-> has_sender,
     i |-> 0, current_idx |-> start_index,
     receivers |-> <<>>, scanned_indexes |-> {},
     result |-> NoPlan,
     \* history: the indices a query of this call saw with zero balance and
     \* zero transaction count
     observed |-> {}]

FindOff ==
    /\ find = [FindStart(0, 0, 0, NoPreFound, FALSE) EXCEPT !.pc = "off"]
    /\ progress = <<>>

FindInit ==
    /\ \E source_index \in FindIndexes, needed \in 0..MaxNeeded,
          start_index \in FindStarts, pre_found \in PreFoundLists,
          has_sender \in BOOLEAN :
          find = FindStart(source_index, needed, start_index, pre_found, has_sender)
    /\ progress = <<>>

\* provider.get_balance(..).await? / get_transaction_count(..).await? failed:
\* find_empty_receivers and with it prepare_split_transactions return Err
FindFail(f) ==
    find' = [f EXCEPT !.pc = "done", !.result = PlanErr("rpc error")]

\* the address at index was queried with answer q: it is pushed when empty
FindPush(f, index, q) ==
    [f EXCEPT !.receivers = IF still_empty(q.balance, q.nonce)
                            THEN Append(f.receivers, index) ELSE f.receivers,
              !.observed = IF q.balance = 0 /\ q.nonce = 0
                           THEN f.observed \cup {index} ELSE f.observed]

\* one iteration of the loop over the pre-found records (lines 58-97)
FindPreFound ==
    /\ find.pc = "pre"
    /\ LET f == find
           total == Len(f.pre_found.list)
       IN  IF ~f.pre_found.some \/ f.i >= total
           THEN find' = [f EXCEPT !.pc = "scan"] /\ UNCHANGED progress
           ELSE
           LET index == f.pre_found.list[f.i + 1]
               g == [f EXCEPT !.scanned_indexes = f.scanned_indexes \cup {index},
                              !.i = f.i + 1]
           IN  IF Len(f.receivers) >= f.needed
               THEN find' = [g EXCEPT !.pc = "scan"] /\ UNCHANGED progress
               ELSE IF index = f.source_index
               THEN find' = g /\ UNCHANGED progress
               ELSE /\ SendProgress(f, CheckingPreFound(f.i + 1, total, Len(f.receivers)))
                    /\ \E q \in Queries(index) :
                          IF q.ok THEN find' = FindPush(g, index, q) ELSE FindFail(g)
    /\ UNCHANGED findOthers

\* one iteration of the scan for more addresses (lines 100-155)
FindScan ==
    /\ find.pc = "scan"
    /\ LET f == find
           max_scan == f.start_index + FindWindow
           next == [f EXCEPT !.current_idx = f.current_idx + 1]
       IN  IF ~(Len(f.receivers) < f.needed /\ f.current_idx < max_scan)
           THEN find' = [f EXCEPT !.pc = "ret"] /\ UNCHANGED progress
           ELSE IF f.current_idx = f.source_index
                   \/ f.current_idx \in f.scanned_indexes
           THEN find' = next /\ UNCHANGED progress
           ELSE /\ SendProgress(f, ScanningIndex(f.current_idx, Len(f.receivers),
                                                 f.needed))
                /\ \E d \in Derivations(f.current_idx) :
                      IF d = "err" THEN find' = next
                      ELSE \E q \in Queries(f.current_idx) :
                              IF q.ok THEN find' = FindPush(next, f.current_idx, q)
                              ELSE FindFail(next)
    /\ UNCHANGED findOthers

\* the planner inputs the rest of a preparation is run on
RestBalances == {BalanceStep, MaxBalanceSteps * BalanceStep}

\* prepare_split_transactions after find_empty_receivers returned Ok (lines
\* 374-512): the count check, the gas price and manager calls, the plan; it
\* sends no event
PrepareRest ==
    /\ find.pc = "ret"
    /\ \/ /\ Len(find.receivers) < find.needed
          /\ find' = [find EXCEPT !.pc = "done",
                         !.result = PlanErr("Could not find enough empty addresses")]
       \/ /\ Len(find.receivers) >= find.needed
          /\ \/ find' = [find EXCEPT !.pc = "done", !.result = PlanErr("rpc error")]
             \/ \E md \in {"Random", "Equal"}, S \in RestBalances, gp \in 0..MaxGasPrice :
                   find' = [find EXCEPT !.pc = "done",
                               !.result = prepare_split_transactions(
                                              md, find.needed, S, 0, gp, 100, NoDraws)]
    /\ UNCHANGED progress
    /\ UNCHANGED findOthers

FindNext == FindPreFound \/ FindScan \/ PrepareRest

\* ---- claims about recipient discovery ----

\* C31: every recipient that automatic discovery returns, whether taken from
\* the caller's pre-found list or found by scanning, was seen with zero balance
\* and zero transaction count by a query of this run, and is never the source
\* index.
C31_RecipientsVerified ==
    \A k \in 1..Len(find.receivers) :
        /\ find.receivers[k] \in find.observed
        /\ find.receivers[k] # find.source_index

\* discovery returned one recipient re-verified from the pre-found list (which
\* also held the source index) and one found by scanning
C31_Witness ==
    /\ find.pc \in {"ret", "done"}
    /\ Len(find.receivers) = 2
    /\ find.pre_found.some
    /\ \E k \in 1..Len(find.pre_found.list) : find.pre_found.list[k] = find.source_index
    /\ \E k \in 1..Len(find.pre_found.list) : find.pre_found.list[k] = find.receivers[1]
    /\ \A k \in 1..Len(find.pre_found.list) : find.pre_found.list[k] # find.receivers[2]

\* C32 (as claimed): a preparation that succeeds with a progress channel
\* attached sends Complete{totalTransactions} as its final progress event, with
\* totalTransactions the number of transactions of the returned plan.
C32_CompleteIsLast ==
    (find.pc = "done" /\ find.result.kind = "ok" /\ find.has_sender) =>
        /\ progress # <<>>
        /\ progress[Len(progress)] = Complete(Len(find.result.txs))

(***************************************************************************)
(*                 CUSTOM NETWORKS (user_settings.rs)                      *)
(***************************************************************************)

\* the chain ids and labels a call may carry (the token and the RPC URL are
\* replaced together with the label)
ChainIds == {1, 2, 3}
Labels == {"Test1", "Test2"}

\* CustomNetwork::new(label, chain_id, ..)
CustomNetwork(label, chain_id) == [label |-> label, chain_id |-> chain_id]

NoNetCall == [op |-> "none", chain_id |-> 0, ret |-> FALSE]
NetCall(op, chain_id, ret) == [op |-> op, chain_id |-> chain_id, ret |-> ret]

\* an add that never finds the chain id
chain_id_exists_never(nets, chain_id) == FALSE

\* self.custom_networks.iter().any(|n| n.chain_id == chain_id)
chain_id_exists(nets, chain_id) == \E i \in 1..Len(nets) : nets[i].chain_id = chain_id

\* self.custom_networks.retain(|n| n.chain_id != chain_id)
RECURSIVE retain_other(_, _)
retain_other(nets, chain_id) ==
    IF nets = <<>> THEN <<>>
    ELSE IF Head(nets).chain_id # chain_id
         THEN <<Head(nets)>> \o retain_other(Tail(nets), chain_id)
         ELSE retain_other(Tail(nets), chain_id)

\* iter_mut().find(|n| n.chain_id == chain_id): the first position, 0 if none
find_network(nets, chain_id) ==
    IF \E i \in 1..Len(nets) : nets[i].chain_id = chain_id
    THEN CHOOSE i \in 1..Len(nets) :
            /\ nets[i].chain_id = chain_id
            /\ \A j \in 1..(i - 1) : nets[j].chain_id # chain_id
    ELSE 0

SettingsOff == custom_networks = <<>> /\ net_call = NoNetCall

\* Bound: the networks in the settings file UserSettings::load() reads
MaxLoaded == 2

\* UserSettings::load(): the custom_networks of the settings file as
\* serde_json gives them (no check of the chain ids), or those of
\* UserSettings::default() (Vec::new()) when there is no file or it does not
\* parse
SettingsInit ==
    /\ custom_networks \in
          SeqsUpTo({CustomNetwork(l, c) : l \in Labels, c \in ChainIds}, MaxLoaded)
    /\ net_call = NoNetCall

add_custom_network(network) ==
    /\ IF chain_id_exists(custom_networks, network.chain_id)
       THEN /\ UNCHANGED custom_networks
            /\ net_call' = NetCall("add", network.chain_id, FALSE)
       ELSE /\ custom_networks' = Append(custom_networks, network)
            /\ net_call' = NetCall("add", network.chain_id, TRUE)
    /\ UNCHANGED settingsOthers

remove_custom_network(chain_id) ==
    /\ LET initial_len == Len(custom_networks)
           kept == retain_other(custom_networks, chain_id)
       IN  /\ custom_networks' = kept
           /\ net_call' = NetCall("remove", chain_id, Len(kept) < initial_len)
    /\ UNCHANGED settingsOthers

update_custom_network(network) ==
    /\ LET existing == find_network(custom_networks, network.chain_id)
       IN  IF existing # 0
           THEN /\ custom_networks' = [custom_networks EXCEPT ![existing] = network]
                /\ net_call' = NetCall("update", network.chain_id, TRUE)
           ELSE /\ UNCHANGED custom_networks
                /\ net_call' = NetCall("update", network.chain_id, FALSE)
    /\ UNCHANGED settingsOthers

SettingsNext ==
    \/ \E l \in Labels, c \in ChainIds : add_custom_network(CustomNetwork(l, c))
    \/ \E c \in ChainIds : remove_custom_network(c)
    \/ \E l \in Labels, c \in ChainIds : update_custom_network(CustomNetwork(l, c))

\* ---- the claim about custom networks ----

HasChainId(nets, c) == \E i \in 1..Len(nets) : nets[i].chain_id = c

UniqueChainIds(nets) ==
    \A i, j \in 1..Len(nets) : i # j => nets[i].chain_id # nets[j].chain_id

\* what a call returns, against the list it was made on
NetCallReturns ==
    LET c == net_call'.chain_id
        present == HasChainId(custom_networks, c)
    IN  /\ (net_call'.op = "add" /\ present) =>
              (~net_call'.ret /\ custom_networks' = custom_networks)
        /\ (net_call'.op = "add" /\ ~present) => net_call'.ret
        /\ (net_call'.op = "update" /\ ~present) =>
              (~net_call'.ret /\ custom_networks' = custom_networks)
        /\ (net_call'.op = "update" /\ present) => net_call'.ret
        /\ net_call'.op = "remove" =>
              (net_call'.ret <=> Len(custom_networks') < Len(custom_networks))
        /\ net_call'.op = "remove" => (net_call'.ret <=> present)

\* the three calls keep chain ids unique in a list where they are unique
UniqueChainIdsPreserved ==
    [][UniqueChainIds(custom_networks) => UniqueChainIds(custom_networks')]_vars

\* the return values of the three calls, from any loaded list
NetCallReturnsHold == [][NetCallReturns]_vars

\* C33: after any sequence of add, update and remove calls no two custom
\* networks share a chain id; add returns false and changes nothing when the
\* chain id is already present, update returns false and changes nothing when
\* it is absent, and remove returns true iff an entry was removed.  The
\* sequence starts from a list these calls built: the default list, or one
\* this program saved, in which chain ids are unique.  (A settings file
\* written by hand with a repeated chain id is loaded as it is; the return
\* values are as stated from there too.)
C33_UniqueChainIds ==
    /\ UniqueChainIds(custom_networks) => [](UniqueChainIds(custom_networks))
    /\ [][NetCallReturns]_vars

\* two networks in the list, and an add of a chain id that is present was
\* just refused
C33_Witness ==
    /\ UniqueChainIds(custom_networks)
    /\ Len(custom_networks) >= 2
    /\ net_call.op = "add" /\ ~net_call.ret
    /\ HasChainId(custom_networks, net_call.chain_id)

(***************************************************************************)
(*        RE-RANDOMIZATION OF PENDING AMOUNTS (gui/app.rs)                 *)
(***************************************************************************)

\* Bounds: the transactions of the queue, and the source balance in units of
\* the job's own transaction fee: from one unit below what three Pending
\* transactions need at gas price 1 (2 + 3 x 5 units) to just that.
MaxPendingTxs == 3
MinRerandSteps == 16
MaxRerandSteps == 17

\* let gas_limit = 25000u64;
RerandGasLimit == 25000

\* rng.gen_range(0.0..1.0) inside the job: the lowest and the highest ratio
RerandRatios == {0, RatioDen - 1}

\* U256::saturating_sub
saturating_sub(a, b) == IF a >= b THEN a - b ELSE 0

\* the amounts of the Success transactions of q, summed (total_sent)
RECURSIVE TotalSent(_)
TotalSent(q) ==
    IF q = <<>> THEN 0
    ELSE (IF Head(q).status.tag = "Success" THEN Head(q).value ELSE 0)
             + TotalSent(Tail(q))

\* the loop `for i in 0..(num_pending - 1)` from i on, then the last amount:
\* rtd is remaining_to_distribute, acc the amounts pushed so far
RECURSIVE RerandAmounts(_, _, _, _, _, _)
RerandAmounts(i, num_pending, rtd, M, dr, acc) ==
    IF i >= num_pending - 1 THEN Append(acc, rtd + M)
    ELSE LET max_for_this_tx == rtd \div (num_pending - i)
             random_amount == add_amount(max_for_this_tx, dr[i + 1])
             amount == random_amount + M
         IN RerandAmounts(i + 1, num_pending, saturating_sub(rtd, amount - M), M, dr,
                          Append(acc, amount))

\* let gas_reserve = tx_fee * U256::from(2)
rerand_gas_reserve(fee, num_pending) == fee * 2

\* the amounts the job computes for the pending ids, <<>> when it returns
\* early with "not enough balance"
new_amounts(q, S, gp, dr) ==
    LET fee == gp * RerandGasLimit
        num_pending == Len(PendingIds(q))
        gas_reserve == rerand_gas_reserve(fee, num_pending)
        remaining_balance == saturating_sub(saturating_sub(S, TotalSent(q)), gas_reserve)
        M == fee * MinTransferFactor
        total_min_required == M * num_pending
    IN  IF remaining_balance < total_min_required THEN <<>>
        ELSE RerandAmounts(0, num_pending, remaining_balance - total_min_required,
                           M, dr, <<>>)

\* the job the button spawned, and one more spawned while it runs (the
\* button's handler does not look at rerandomize_job)
RerandJobs == 1..2

RerandIdle ==
    [pc |-> "off", gas_price |-> 0, source_balance |-> 0,
     pending_tx_ids |-> <<>>, new_amounts |-> <<>>, i |-> 0, ret |-> "none"]

\* Option<U256>
NoGasPrice == [some |-> FALSE, v |-> 0]
SomeGasPrice(g) == [some |-> TRUE, v |-> g]

\* Option::unwrap_or_default
unwrap_or_default(o) == IF o.some THEN o.v ELSE 0

\* BulkDisperseState::default(): current_gas_price: None, gas_price_job: None
BulkDisperseDefault == [current_gas_price |-> NoGasPrice, gas_price_job |-> FALSE]

RerandOff ==
    /\ rr = [j \in RerandJobs |-> RerandIdle]
    /\ bulk_disperse_state = BulkDisperseDefault

\* the transaction view of a Random split just prepared (app.rs 2414-2419):
\* with_delay, set_manager, add_transactions of the plan; the GUI's worker
\* is the one task that executes.  No job runs, and the Bulk Disperse state
\* is as constructed.
RerandInit ==
    /\ \E n \in 0..MaxPendingTxs :
          /\ queue = [k \in 1..n |-> NewTx(k - 1, k, 1)]
          /\ added = n /\ allocated = 0..(n - 1)
    /\ manager_set = [p \in QCallers |-> TRUE]
    /\ qcall = [p \in QCallers |-> IF p = 1 THEN QIdle ELSE QAbsent]
    /\ rr = [j \in RerandJobs |-> RerandIdle]
    /\ bulk_disperse_state = BulkDisperseDefault

\* view_bulk_disperse: the gas price job is spawned when there is neither a
\* price nor a job
FetchGasPrice ==
    /\ ~bulk_disperse_state.current_gas_price.some
    /\ ~bulk_disperse_state.gas_price_job
    /\ bulk_disperse_state' = [bulk_disperse_state EXCEPT !.gas_price_job = TRUE]
    /\ UNCHANGED <<rr, queueVars>>
    /\ UNCHANGED rerandOthers

\* poll_jobs on the finished gas price job: Ok(gas_price) is stored whatever
\* the provider answered, Err stores None; the job handle is dropped
PollGasPriceJob ==
    /\ bulk_disperse_state.gas_price_job
    /\ \/ \E g \in 0..MaxGasPrice :
             bulk_disperse_state' = [current_gas_price |-> SomeGasPrice(g),
                                     gas_price_job |-> FALSE]
       \/ bulk_disperse_state' = [current_gas_price |-> NoGasPrice,
                                  gas_price_job |-> FALSE]
    /\ UNCHANGED <<rr, queueVars>>
    /\ UNCHANGED rerandOthers

\* matches!(tx.status, Success { .. } | Skipped) for some transaction
has_processed_transactions(q) ==
    \E k \in 1..Len(q) : q[k].status.tag \in {"Success", "Skipped"}

\* rerandomize_transaction_amounts up to spawn_job: refused only when some
\* transaction is Success or Skipped; the job gets
\* bulk_disperse_state.current_gas_price.unwrap_or_default() as of the click
RerandSpawn(j) ==
    /\ rr[j].pc = "off"
    /\ \A k \in RerandJobs : k < j => rr[k].pc # "off"
    /\ ~has_processed_transactions(queue)
    /\ rr' = [rr EXCEPT ![j].pc = "start",
                        ![j].gas_price =
                            unwrap_or_default(bulk_disperse_state.current_gas_price)]
    /\ UNCHANGED <<bulk_disperse_state, queueVars>>
    /\ UNCHANGED rerandOthers

\* the job up to its update loop: the snapshot of the queue, the balance read
\* (whose `?` may return Err), the new amounts
RerandCompute(j) ==
    /\ rr[j].pc = "start"
    /\ LET ids == PendingIds(queue)
           job == rr[j]
       IN  IF ids = <<>>
           THEN rr' = [rr EXCEPT ![j] = [job EXCEPT !.pc = "done", !.ret = "ok"]]
           ELSE \/ rr' = [rr EXCEPT ![j] =
                          [job EXCEPT !.pc = "done", !.ret = "err", !.pending_tx_ids = ids]]
                \/ \E u \in MinRerandSteps..MaxRerandSteps, dr \in [1..MaxOutputs -> RerandRatios] :
                      LET S == u * RerandGasLimit
                          amounts == new_amounts(queue, S, job.gas_price, dr)
                      IN  /\ \A k \in 1..MaxOutputs : k >= Len(ids) => dr[k] = 0
                          /\ rr' = [rr EXCEPT ![j] =
                                 [job EXCEPT !.source_balance = S,
                                             !.pending_tx_ids = ids,
                                             !.new_amounts = amounts,
                                             !.pc = IF amounts = <<>> THEN "done" ELSE "update",
                                             !.ret = IF amounts = <<>> THEN "ok" ELSE "none"]]
    /\ UNCHANGED <<bulk_disperse_state, queueVars>>
    /\ UNCHANGED rerandOthers

\* one turn of the update loop: update_pending_transaction_value(id, amount)
\* under the queue lock; its Err leaves the job through `?`.  The amounts
\* are dropped with the job's locals when it returns.
RerandUpdate(j) ==
    /\ rr[j].pc = "update"
    /\ LET job == rr[j]
           id == job.pending_tx_ids[job.i + 1]
           r == update_pending_transaction_value(queue, id, job.new_amounts[job.i + 1])
       IN  /\ queue' = r.queue
           /\ rr' = [rr EXCEPT ![j] =
                    IF r.ret # RetOk
                    THEN [job EXCEPT !.pc = "done", !.ret = "err", !.new_amounts = <<>>]
                    ELSE IF job.i + 1 = Len(job.pending_tx_ids)
                    THEN [job EXCEPT !.pc = "done", !.ret = "ok", !.i = job.i + 1,
                                     !.new_amounts = <<>>]
                    ELSE [job EXCEPT !.i = job.i + 1]]
    /\ UNCHANGED <<bulk_disperse_state, manager_set, added, allocated, qcall>>
    /\ UNCHANGED rerandOthers

\* the jobs, with the gas price fetch of the Bulk Disperse view and the
\* transaction view's buttons beside them: skip of the second transaction,
\* execute of the first
RerandNext ==
    \/ FetchGasPrice
    \/ PollGasPriceJob
    \/ \E j \in RerandJobs : RerandSpawn(j)
    \/ \E j \in RerandJobs : RerandCompute(j)
    \/ \E j \in RerandJobs : RerandUpdate(j)
    \/ SkipTransaction(1)
    \/ ExecuteOneBegin(1, 0)
    \/ ManagerExecute(1)
    \/ QueueCallDone(1)

\* ---- the claim about re-randomization ----

RECURSIVE PendingSum(_)
PendingSum(q) ==
    IF q = <<>> THEN 0
    ELSE (IF Head(q).status.tag = "Pending" THEN Head(q).value ELSE 0)
             + PendingSum(Tail(q))

\* C39 (as claimed): after a re-randomization that wrote new amounts completes,
\* the amounts of all Pending transactions plus one transaction fee per Pending
\* transaction do not exceed the source balance the job read, for any number of
\* Pending transactions; and if it stops with an error, either all Pending
\* amounts or none were changed.
C39_RerandWithinBalance ==
    [][\A j \in RerandJobs :
          (rr[j].pc # "done" /\ rr'[j].pc = "done") =>
              /\ (rr'[j].ret = "ok" /\ rr'[j].i > 0) =>
                    PendingSum(queue')
                        + (rr'[j].gas_price * RerandGasLimit) * Len(PendingIds(queue'))
                            <= rr'[j].source_balance
              /\ rr'[j].ret = "err" => rr'[j].i \in {0, Len(rr'[j].pending_tx_ids)}]_vars

(***************************************************************************)
(*          GUI POLLING OF A STREAMING SCAN (gui/app.rs)                   *)
(***************************************************************************)

\* Option<Vec<BalanceScanRecord>>
NoRecords == [some |-> FALSE, v |-> <<>>]
SomeRecords(v) == [some |-> TRUE, v |-> v]

\* The GUI state of a scan just started (balances.rs:116-140, app.rs:1781-1812):
\* receiver and job are Some, nothing is recorded.  `taken` counts the events
\* received from the progress channel; `half` is where the frame in progress is.
PollStart ==
    [pc |-> "frame", receiver |-> TRUE, taken |-> 0,
     job |-> "running", job_res |-> "none",
     result |-> NoScanResult, error |-> FALSE,
     streaming_records |-> <<>>,
     funded_addresses |-> NoRecords, empty_addresses |-> NoRecords,
     streaming_funded_addresses |-> <<>>, streaming_empty_addresses |-> <<>>]

PollOff == ui = [PollStart EXCEPT !.pc = "off", !.receiver = FALSE, !.job = "none"]

PollInit ==
    /\ \E k \in {"empty_stream", "funded_stream"}, target \in 1..MaxTarget :
          scan = ScanStart(k, 0, target)
    /\ chan = <<>> /\ cancel = "none"
    /\ ui = PollStart

\* spawn_job's thread: after the scan function returned, tx.send(result)
JobFinish ==
    /\ ui.pc \in {"frame", "mid"}
    /\ scan.pc = "done"
    /\ ui.job = "running"
    /\ ui' = [ui EXCEPT !.job = "sent", !.job_res = scan.ret]
    /\ UNCHANGED pollOthers

\* poll_jobs' `while let Ok(progress) = receiver.try_recv()` from event k on:
\* records are pushed, Completed stores the result and breaks
RECURSIVE DrainCheck(_, _)
DrainCheck(u, k) ==
    IF k > Len(chan) THEN u
    ELSE IF chan[k].kind = "AddressFound"
    THEN DrainCheck([u EXCEPT !.taken = k,
                              !.streaming_records = Append(@, chan[k].record)], k + 1)
    ELSE [u EXCEPT !.taken = k, !.result = chan[k].result, !.error = FALSE,
                   \* if scan_completed: the receiver, the cancel sender and the job go
                   !.receiver = FALSE, !.job = "none"]

\* poll_source_selection's try_recv loop from event k on: records go to the
\* streaming lists, Completed replaces them with the scan's buckets; the
\* receiver goes when Completed was seen
RECURSIVE DrainSource(_, _)
DrainSource(u, k) ==
    IF k > Len(chan) THEN u
    ELSE IF chan[k].kind = "AddressFound"
    THEN DrainSource(
             IF chan[k].record.balance = 0
             THEN [u EXCEPT !.taken = k,
                            !.streaming_empty_addresses = Append(@, chan[k].record)]
             ELSE [u EXCEPT !.taken = k,
                            !.streaming_funded_addresses = Append(@, chan[k].record)],
             k + 1)
    ELSE DrainSource(
             [u EXCEPT !.taken = k,
                       !.funded_addresses = SomeRecords(chan[k].result.funded),
                       !.empty_addresses = SomeRecords(chan[k].result.empty),
                       !.streaming_funded_addresses = <<>>,
                       !.streaming_empty_addresses = <<>>,
                       !.receiver = FALSE],
             k + 1)

\* poll_jobs, first half of a frame (lines 601-627): the progress events
PollJobsDrain ==
    /\ scan.kind = "empty_stream"
    /\ ui.pc = "frame"
    /\ ui' = [(IF ui.receiver THEN DrainCheck(ui, ui.taken + 1) ELSE ui)
                 EXCEPT !.pc = "mid"]
    /\ UNCHANGED pollOthers

\* poll_jobs, second half (lines 629-642): job.poll(); a finished job drops
\* the receiver
PollJobsJob ==
    /\ scan.kind = "empty_stream"
    /\ ui.pc = "mid"
    /\ ui' = IF ui.job = "sent"
             THEN [ui EXCEPT !.pc = "frame", !.job = "none", !.receiver = FALSE,
                             !.error = (ui.error \/ ui.job_res = "err")]
             ELSE [ui EXCEPT !.pc = "frame"]
    /\ UNCHANGED pollOthers

\* poll_source_selection, first half of a frame (lines 982-1001): job.poll()
PollSourceJob ==
    /\ scan.kind = "funded_stream"
    /\ ui.pc = "frame"
    /\ ui' = IF ui.job = "sent"
             THEN [ui EXCEPT !.pc = "mid", !.job = "none", !.receiver = FALSE,
                             !.error = (ui.job_res = "err"),
                             !.funded_addresses =
                                 IF ui.job_res = "ok" /\ ~ui.funded_addresses.some
                                 THEN SomeRecords(ui.streaming_funded_addresses)
                                 ELSE ui.funded_addresses]
             ELSE [ui EXCEPT !.pc = "mid"]
    /\ UNCHANGED pollOthers

\* poll_source_selection, second half (lines 1003-1032): the progress events
PollSourceDrain ==
    /\ scan.kind = "funded_stream"
    /\ ui.pc = "mid"
    /\ ui' = [(IF ui.receiver THEN DrainSource(ui, ui.taken + 1) ELSE ui)
                 EXCEPT !.pc = "frame"]
    /\ UNCHANGED pollOthers

\* apply_network_selection, on a network switch between two frames' polls:
\* check_state.result = None, check_state.error = None, whatever the scan's
\* state
ApplyNetworkSelection ==
    /\ scan.kind = "empty_stream"
    /\ ui.pc = "frame"
    /\ ui' = [ui EXCEPT !.result = NoScanResult, !.error = FALSE]
    /\ UNCHANGED pollOthers

\* view_check_balances, the New Scan button: shown when no job is there and
\* there is a result or a streamed record; it clears result,
\* streaming_records and error
NewScan ==
    /\ scan.kind = "empty_stream"
    /\ ui.pc = "frame"
    /\ ui.job = "none"
    /\ ui.result # NoScanResult \/ ui.streaming_records # <<>>
    /\ ui' = [ui EXCEPT !.result = NoScanResult, !.streaming_records = <<>>,
                        !.error = FALSE]
    /\ UNCHANGED pollOthers

\* SourceSelectionState::reset(), between two frames' polls (the Cancel
\* buttons and the address pick of render_split_address_selection, the back
\* button of view_split_transactions): the job, the receiver and the cancel
\* sender go, the results, the streaming lists and the error are cleared
SourceReset ==
    /\ scan.kind = "funded_stream"
    /\ ui.pc = "frame"
    /\ ui' = [ui EXCEPT !.job = "none", !.receiver = FALSE,
                        !.funded_addresses = NoRecords, !.empty_addresses = NoRecords,
                        !.streaming_funded_addresses = <<>>,
                        !.streaming_empty_addresses = <<>>,
                        !.error = FALSE]
    /\ UNCHANGED pollOthers

PollNext ==
    \/ ScanNext
    \/ JobFinish
    \/ PollJobsDrain
    \/ PollJobsJob
    \/ PollSourceJob
    \/ PollSourceDrain
    \/ ApplyNetworkSelection
    \/ NewScan
    \/ SourceReset

\* ---- the claim about polling ----

\* C40 (as claimed): for every interleaving of a streaming scan task with the
\* GUI's frames, every event the task emitted is consumed before the poller
\* drops the progress receiver: if the task emitted Completed(result), the
\* poller has recorded that result when it drops the receiver (balance scan:
\* check_state.result; source selection: funded_addresses and empty_addresses
\* equal to the scan's buckets).  The poller's steps are those that move the
\* frame on; a reset by the user is none.
C40_CompletedIsRecorded ==
    [][(/\ ui.receiver /\ ~ui'.receiver
        /\ ui'.pc # ui.pc
        /\ chan' # <<>> /\ chan'[Len(chan')].kind = "Completed") =>
           /\ ui'.taken = Len(chan')
           /\ IF scan.kind = "empty_stream"
              THEN ui'.result = chan'[Len(chan')].result
              ELSE /\ ui'.funded_addresses = SomeRecords(chan'[Len(chan')].result.funded)
                   /\ ui'.empty_addresses = SomeRecords(chan'[Len(chan')].result.empty)]_vars

(***************************************************************************)
(*                          SPECIFICATIONS                                 *)
(***************************************************************************)

PlanNext == PrepareSplit

InitPlan == PlanInit /\ NonceOff /\ QueueOff /\ SignOff /\ BatchOff /\ DevOff /\ ScanOff /\ FindOff /\ SettingsOff /\ RerandOff /\ PollOff

SpecPlan == InitPlan /\ [][PlanNext]_vars

InitNonce == NonceInit /\ PlanOff /\ QueueOff /\ SignOff /\ BatchOff /\ DevOff /\ ScanOff /\ FindOff /\ SettingsOff /\ RerandOff /\ PollOff

SpecNonce == InitNonce /\ [][NonceNext]_vars

InitQueue == QueueInit /\ PlanOff /\ NonceOff /\ SignOff /\ BatchOff /\ DevOff /\ ScanOff /\ FindOff /\ SettingsOff /\ RerandOff /\ PollOff

SpecQueue == InitQueue /\ [][QueueNext]_vars

InitQueueOps == QueueOpsInit /\ PlanOff /\ NonceOff /\ SignOff /\ BatchOff /\ DevOff /\ ScanOff /\ FindOff /\ SettingsOff /\ RerandOff /\ PollOff

SpecQueueOps == InitQueueOps /\ [][QueueOpsNext]_vars

SpecQueueEdit == InitQueueOps /\ [][QueueEditNext]_vars

InitSign == SignInit /\ PlanOff /\ QueueOff /\ BatchOff /\ DevOff /\ ScanOff /\ FindOff /\ SettingsOff /\ RerandOff /\ PollOff

SpecSign == InitSign /\ [][SignNext]_vars

InitBatch == BatchInit /\ PlanOff /\ NonceOff /\ QueueOff /\ SignOff /\ DevOff /\ ScanOff /\ FindOff /\ SettingsOff /\ RerandOff /\ PollOff

SpecBatch == InitBatch /\ [][BatchNext]_vars

InitDev == DevInit /\ PlanOff /\ NonceOff /\ QueueOff /\ SignOff /\ BatchOff /\ ScanOff /\ FindOff /\ SettingsOff /\ RerandOff /\ PollOff

SpecDev == InitDev /\ [][DevNext]_vars

InitScan ==
    ScanInit /\ PlanOff /\ NonceOff /\ QueueOff /\ SignOff /\ BatchOff /\ DevOff /\ FindOff /\ SettingsOff /\ RerandOff /\ PollOff

SpecScan == InitScan /\ [][ScanNext]_vars

InitFind ==
    FindInit /\ PlanOff /\ NonceOff /\ QueueOff /\ SignOff /\ BatchOff /\ DevOff /\ ScanOff /\ SettingsOff /\ RerandOff /\ PollOff

SpecFind == InitFind /\ [][FindNext]_vars

InitSettings ==
    /\ SettingsInit /\ PlanOff /\ NonceOff /\ QueueOff /\ SignOff /\ BatchOff /\ DevOff
    /\ ScanOff /\ FindOff /\ RerandOff /\ PollOff

SpecSettings == InitSettings /\ [][SettingsNext]_vars

InitRerand ==
    /\ RerandInit /\ PlanOff /\ NonceOff /\ SignOff /\ BatchOff /\ DevOff /\ ScanOff
    /\ FindOff /\ SettingsOff /\ PollOff

SpecRerand == InitRerand /\ [][RerandNext]_vars

InitPoll ==
    /\ PollInit /\ PlanOff /\ NonceOff /\ QueueOff /\ SignOff /\ BatchOff /\ DevOff
    /\ FindOff /\ SettingsOff /\ RerandOff

SpecPoll == InitPoll /\ [][PollNext]_vars

====
